---- MODULE Spec2Model ----
(***************************************************************************)
(* Model of the rotary-switch-helper crate: the quadrature decoder         *)
(* (Encoder::update_state) and the per-line interrupt handlers registered  *)
(* by Encoder::enable_callbacks in src/src/rotary_encoder.rs.              *)
(*                                                                         *)
(* Specifications:                                                         *)
(*   Spec       edges of any kind arrive serially on either line           *)
(*   CycleSpec  the environment delivers only complete detent cycles       *)
(*   DecodeSpec one call of update_state on every input of its interface   *)
(*   TableSpec  one lookup of the transition table (the match on           *)
(*              trans_state) on every word                                 *)
(*   HealSpec   the two lines alternate physically, edges may be dropped   *)
(*   ConcSpec   the two closures run on their own threads, load by load    *)
(*   ShiftSpec, ConfigSpec  the encoder with shifted name and switch pin   *)
(*   SwitchSpec, LongPressSpec  the switch encoder and its classifier      *)
(*   TeardownSpec  the encoder is dropped field by field                   *)
(*   ConstructSpec PiInput::new with fallible pins and registrations       *)
(*   PureSpec   update_state called repeatedly on free arguments           *)
(*   ModesSpec  the switch encoder in either of its two modes              *)
(***************************************************************************)
EXTENDS Integers, Sequences, FiniteSets

VARIABLES
    state,        \* Encoder.state: the persisted 2-bit register
    direction,    \* Encoder.direction: the persisted direction
    callbacks,    \* the calls made to the user callback, in order
    hist,         \* one record per delivered event, in order (history)
    d_pc,         \* position inside one call of update_state
    d_old_state,  \* argument old_state
    d_direction,  \* argument old_direction
    d_pin,        \* argument pin
    d_level,      \* argument level
    d_new_state,  \* local new_state
    d_trans,      \* local trans_state
    d_out,        \* the value returned
    th,           \* the two handler threads, when they run concurrently
    written,      \* the pairs a closure has stored, the initial one too (history)
    sw_pin,       \* level read from the encoder's switch pin
    cfg,          \* which of shifted name and switch pin are configured
    sw_callbacks, \* the calls made to the switch callback, in order
    press_start,  \* the press-start timestamp of the switch classifier
    sw_events,    \* the events delivered to the switch, in order (history)
    long_press,   \* whether the switch has a long-press name
    subs,         \* the interrupt subscriptions registered with the source
    pins,         \* the input pins held
    owners,       \* the strong references to the shared cells (Arc)
    drop_at,      \* how many fields of the encoder have been dropped
    stale,        \* a closure ran while a cell it uses was released (history)
    pc,           \* position inside PiInput::new
    built,        \* the encoders constructed so far
    result        \* what PiInput::new returned

vars == <<state, direction, callbacks, hist,
          d_pc, d_old_state, d_direction, d_pin, d_level,
          d_new_state, d_trans, d_out,
          th, written, sw_pin, cfg,
          sw_callbacks, press_start, sw_events, long_press,
          subs, pins, owners, drop_at, stale, pc, built, result>>

enc_vars == <<state, direction, callbacks, hist>>
dec_vars == <<d_pc, d_old_state, d_direction, d_pin, d_level,
              d_new_state, d_trans, d_out>>
conc_vars == <<th, written>>
shift_vars == <<sw_pin, cfg>>
switch_vars == <<sw_callbacks, press_start, sw_events, long_press>>
life_vars == <<subs, pins, owners, drop_at, stale, pc, built, result>>

\* everything but the encoder cells, and everything but the decoder trace
outside_enc == <<dec_vars, conc_vars, shift_vars, switch_vars, life_vars>>
outside_dec == <<enc_vars, conc_vars, shift_vars, switch_vars, life_vars>>

----------------------------------------------------------------------------
(* Bounds of the model *)

\* events delivered in one behaviour of Spec
MaxEdges == 6
\* detent cycles delivered in one behaviour of CycleSpec
MaxCycles == 4
\* largest transition word looked up in TableSpec
MaxWord == 31

\* events delivered in one behaviour of HealSpec
MaxHealEdges == 12

\* events delivered in one behaviour of ConcSpec
MaxConcEdges == 4

\* events (edges and switch changes) in one behaviour of ShiftSpec
MaxShiftEdges == 5

\* events delivered to the switch in one behaviour
MaxSwitchEvents == 4
\* largest event timestamp, in seconds
MaxTime == 6

\* events delivered while an encoder is torn down
MaxTeardownEdges == 4

\* callbacks made while and after PiInput::new runs
MaxConstructCallbacks == 2

\* calls of update_state made one after the other
MaxDecodes == 2

----------------------------------------------------------------------------
(* Types of the program *)

Clockwise == "Clockwise"
CounterClockwise == "CounterClockwise"
None == "None"

Direction == {Clockwise, CounterClockwise, None}

Pin == {"Dt", "Clk"}

\* rppal::gpio::Trigger as carried by an Event
RisingEdge == "RisingEdge"
FallingEdge == "FallingEdge"
OtherTrigger == "Other"
Trigger == {RisingEdge, FallingEdge, OtherTrigger}

Levels == {0, 1}
States == 0 .. 3

\* the name the encoder was constructed with
name == "name"

\* rppal::gpio::Level as read from a pin
High == "High"
Low == "Low"
Level == {High, Low}

\* Option::None of a timestamp
Absent == <<>>

\* a recorded press-start timestamp
Recorded(timestamp) == <<timestamp>>

----------------------------------------------------------------------------
(* u8 arithmetic used by update_state *)

\* a << n on u8: the bits shifted out are discarded
Shl(a, n) == (a * (2 ^ n)) % 256

\* a & 0b10 and a & 0b01
AndBit1(a) == ((a \div 2) % 2) * 2
AndBit0(a) == a % 2

----------------------------------------------------------------------------
(* Encoder::update_state *)

\* variant: each line writes the other line's bit
NewStateSwappedBits(old_state, pin, level) ==
    IF pin = "Clk" THEN (AndBit0(old_state) + Shl(level, 1)) % 256
                   ELSE (AndBit1(old_state) + level) % 256

\* variant: the bit of the other line is not kept
NewStateDropsOtherBit(old_state, pin, level) ==
    IF pin = "Clk" THEN level % 256
                   ELSE Shl(level, 1)

\* variant: the level of DT is shifted one place too far
NewStateShiftsTooFar(old_state, pin, level) ==
    IF pin = "Clk" THEN (AndBit1(old_state) + level) % 256
                   ELSE (AndBit0(old_state) + Shl(level, 2)) % 256

\* let new_state = match pin { ... }
NewState(old_state, pin, level) ==
    IF pin = "Clk" THEN (AndBit1(old_state) + level) % 256
                   ELSE (AndBit0(old_state) + Shl(level, 1)) % 256

\* let trans_state = (old_state << 2) + new_state
TransState(old_state, new_state) == (Shl(old_state, 2) + new_state) % 256

TableOk(d, t) == [ok |-> TRUE, direction |-> d, trigger |-> t]
TableErr == [ok |-> FALSE]

\* Variants of the transition table, each with one plausible slip.

\* `trigger = true` forgotten in the two guarded arms
TableTriggerNotSet(trans_state, old_direction) ==
    CASE trans_state \in {1, 7, 14} -> TableOk(Clockwise, FALSE)
      [] trans_state \in {2, 11, 13} -> TableOk(CounterClockwise, FALSE)
      [] trans_state = 4 /\ old_direction = CounterClockwise ->
             TableOk(CounterClockwise, FALSE)
      [] trans_state = 8 /\ old_direction = Clockwise ->
             TableOk(Clockwise, FALSE)
      [] trans_state = 12 /\ old_direction # None ->
             TableOk(old_direction, TRUE)
      [] OTHER -> TableErr

\* the guards of 0100 and 1000 exchanged
TableSwappedGuards(trans_state, old_direction) ==
    CASE trans_state \in {1, 7, 14} -> TableOk(Clockwise, FALSE)
      [] trans_state \in {2, 11, 13} -> TableOk(CounterClockwise, FALSE)
      [] trans_state = 4 /\ old_direction = Clockwise ->
             TableOk(CounterClockwise, TRUE)
      [] trans_state = 8 /\ old_direction = CounterClockwise ->
             TableOk(Clockwise, TRUE)
      [] trans_state = 12 /\ old_direction # None ->
             TableOk(old_direction, TRUE)
      [] OTHER -> TableErr

\* 0100 guarded by `!= Clockwise` instead of `== CounterClockwise`
Table0100Loose(trans_state, old_direction) ==
    CASE trans_state \in {1, 7, 14} -> TableOk(Clockwise, FALSE)
      [] trans_state \in {2, 11, 13} -> TableOk(CounterClockwise, FALSE)
      [] trans_state = 4 /\ old_direction # Clockwise ->
             TableOk(CounterClockwise, TRUE)
      [] trans_state = 8 /\ old_direction = Clockwise ->
             TableOk(Clockwise, TRUE)
      [] trans_state = 12 /\ old_direction # None ->
             TableOk(old_direction, TRUE)
      [] OTHER -> TableErr

\* 1000 guarded by `!= CounterClockwise` instead of `== Clockwise`
Table1000Loose(trans_state, old_direction) ==
    CASE trans_state \in {1, 7, 14} -> TableOk(Clockwise, FALSE)
      [] trans_state \in {2, 11, 13} -> TableOk(CounterClockwise, FALSE)
      [] trans_state = 4 /\ old_direction = CounterClockwise ->
             TableOk(CounterClockwise, TRUE)
      [] trans_state = 8 /\ old_direction # CounterClockwise ->
             TableOk(Clockwise, TRUE)
      [] trans_state = 12 /\ old_direction # None ->
             TableOk(old_direction, TRUE)
      [] OTHER -> TableErr

\* the guard of 1100 dropped
Table1100Unguarded(trans_state, old_direction) ==
    CASE trans_state \in {1, 7, 14} -> TableOk(Clockwise, FALSE)
      [] trans_state \in {2, 11, 13} -> TableOk(CounterClockwise, FALSE)
      [] trans_state = 4 /\ old_direction = CounterClockwise ->
             TableOk(CounterClockwise, TRUE)
      [] trans_state = 8 /\ old_direction = Clockwise ->
             TableOk(Clockwise, TRUE)
      [] trans_state = 12 -> TableOk(old_direction, TRUE)
      [] OTHER -> TableErr

\* a repeated resting word 0000 accepted as "no movement"
TableRestAccepted(trans_state, old_direction) ==
    CASE trans_state \in {1, 7, 14} -> TableOk(Clockwise, FALSE)
      [] trans_state \in {2, 11, 13} -> TableOk(CounterClockwise, FALSE)
      [] trans_state = 4 /\ old_direction = CounterClockwise ->
             TableOk(CounterClockwise, TRUE)
      [] trans_state = 8 /\ old_direction = Clockwise ->
             TableOk(Clockwise, TRUE)
      [] trans_state = 12 /\ old_direction # None ->
             TableOk(old_direction, TRUE)
      [] trans_state = 0 -> TableOk(old_direction, FALSE)
      [] OTHER -> TableErr

\* 0111 keeps the stored direction instead of setting Clockwise
Table0111KeepsDirection(trans_state, old_direction) ==
    CASE trans_state \in {1, 14} -> TableOk(Clockwise, FALSE)
      [] trans_state = 7 -> TableOk(old_direction, FALSE)
      [] trans_state \in {2, 11, 13} -> TableOk(CounterClockwise, FALSE)
      [] trans_state = 4 /\ old_direction = CounterClockwise ->
             TableOk(CounterClockwise, TRUE)
      [] trans_state = 8 /\ old_direction = Clockwise ->
             TableOk(Clockwise, TRUE)
      [] trans_state = 12 /\ old_direction # None ->
             TableOk(old_direction, TRUE)
      [] OTHER -> TableErr

\* let direction = match trans_state { ... }, with the trigger flag it sets
Table(trans_state, old_direction) ==
    CASE trans_state = 1 -> TableOk(Clockwise, FALSE)
      [] trans_state = 2 -> TableOk(CounterClockwise, FALSE)
      [] trans_state = 7 -> TableOk(Clockwise, FALSE)
      [] trans_state = 4 /\ old_direction = CounterClockwise ->
             TableOk(CounterClockwise, TRUE)
      [] trans_state = 11 -> TableOk(CounterClockwise, FALSE)
      [] trans_state = 8 /\ old_direction = Clockwise ->
             TableOk(Clockwise, TRUE)
      [] trans_state = 13 -> TableOk(CounterClockwise, FALSE)
      [] trans_state = 14 -> TableOk(Clockwise, FALSE)
      [] trans_state = 12 /\ old_direction # None ->
             TableOk(old_direction, TRUE)
      [] OTHER -> TableErr

\* the Err value: the message carries old_state, old_direction, trans_state
DecodeErr(old_state, old_direction, trans_state) ==
    [ok |-> FALSE, old_state |-> old_state,
     old_direction |-> old_direction, trans_state |-> trans_state]

\* the Ok value: (new_state, direction, trigger)
DecodeOk(new_state, dir, trigger) ==
    [ok |-> TRUE, new_state |-> new_state, direction |-> dir,
     trigger |-> trigger]

\* the value update_state returns for a looked-up table entry
Result(old_state, old_direction, new_state, trans_state, entry) ==
    IF entry.ok
    THEN DecodeOk(new_state, entry.direction, entry.trigger)
    ELSE DecodeErr(old_state, old_direction, trans_state)

update_state(old_state, old_direction, pin, level) ==
    LET new_state == NewState(old_state, pin, level)
        trans_state == TransState(old_state, new_state)
    IN  Result(old_state, old_direction, new_state, trans_state,
               Table(trans_state, old_direction))

----------------------------------------------------------------------------
(* The interrupt handlers registered by Encoder::enable_callbacks *)

\* variant: the two edge kinds mapped the other way round
EdgeLevelInverted(kind) == IF kind = RisingEdge THEN 1 ELSE 0

\* match event.trigger { RisingEdge => 0, FallingEdge => 1, _ => return }
EdgeLevel(kind) == IF kind = RisingEdge THEN 0 ELSE 1

HistEntry(pin, kind, decoded, r, fired, after) ==
    [pin |-> pin, kind |-> kind, decoded |-> decoded,
     ok |-> decoded /\ r.ok,
     trigger |-> decoded /\ r.ok /\ r.trigger,
     fired |-> fired, after |-> after]

\* Variants of the closure, each with one plausible slip.

\* the new state is stored before the decode result is looked at
HandlerStoresOnError(pin, kind) ==
    IF kind \notin {RisingEdge, FallingEdge}
    THEN /\ UNCHANGED <<state, direction, callbacks>>
         /\ hist' = Append(hist,
                HistEntry(pin, kind, FALSE, [ok |-> FALSE], <<>>, state))
    ELSE LET r == update_state(state, direction, pin, EdgeLevel(kind))
             stored == NewState(state, pin, EdgeLevel(kind))
             fired == IF r.ok /\ r.trigger
                      THEN <<[name |-> name, direction |-> r.direction]>>
                      ELSE <<>>
         IN  /\ state' = stored
             /\ direction' = IF r.ok THEN r.direction ELSE direction
             /\ callbacks' = callbacks \o fired
             /\ hist' = Append(hist,
                    HistEntry(pin, kind, TRUE, r, fired, stored))

\* the default arm of `match event.trigger` yields 1 instead of returning
HandlerOtherAsFalling(pin, kind) ==
    LET r == update_state(state, direction, pin, EdgeLevel(kind))
    IN  IF r.ok
        THEN LET fired == IF r.trigger
                          THEN <<[name |-> name, direction |-> r.direction]>>
                          ELSE <<>>
             IN  /\ state' = r.new_state
                 /\ direction' = r.direction
                 /\ callbacks' = callbacks \o fired
                 /\ hist' = Append(hist,
                        HistEntry(pin, kind, TRUE, r, fired, r.new_state))
        ELSE /\ UNCHANGED <<state, direction, callbacks>>
             /\ hist' = Append(hist,
                    HistEntry(pin, kind, TRUE, r, <<>>, state))

\* `if trigger` missing: the callback runs after every successful decode
HandlerAlwaysCallback(pin, kind) ==
    IF kind \notin {RisingEdge, FallingEdge}
    THEN /\ UNCHANGED <<state, direction, callbacks>>
         /\ hist' = Append(hist,
                HistEntry(pin, kind, FALSE, [ok |-> FALSE], <<>>, state))
    ELSE LET r == update_state(state, direction, pin, EdgeLevel(kind))
         IN  IF r.ok
             THEN LET fired == <<[name |-> name, direction |-> r.direction]>>
                  IN  /\ state' = r.new_state
                      /\ direction' = r.direction
                      /\ callbacks' = callbacks \o fired
                      /\ hist' = Append(hist,
                             HistEntry(pin, kind, TRUE, r, fired,
                                       r.new_state))
             ELSE /\ UNCHANGED <<state, direction, callbacks>>
                  /\ hist' = Append(hist,
                         HistEntry(pin, kind, TRUE, r, <<>>, state))

\* the decode result is unwrapped: a decode error panics, the closure does
\* not return
HandlerUnwrapsDecode(pin, kind) ==
    IF kind \notin {RisingEdge, FallingEdge}
    THEN /\ UNCHANGED <<state, direction, callbacks>>
         /\ hist' = Append(hist,
                HistEntry(pin, kind, FALSE, [ok |-> FALSE], <<>>, state))
    ELSE LET r == update_state(state, direction, pin, EdgeLevel(kind))
         IN  /\ r.ok
             /\ LET fired == IF r.trigger
                             THEN <<[name |-> name,
                                     direction |-> r.direction]>>
                             ELSE <<>>
                IN  /\ state' = r.new_state
                    /\ direction' = r.direction
                    /\ callbacks' = callbacks \o fired
                    /\ hist' = Append(hist,
                           HistEntry(pin, kind, TRUE, r, fired,
                                     r.new_state))

\* the closure of CLK maps the edge kinds the other way round
HandlerClkLevelInverted(pin, kind) ==
    IF kind \notin {RisingEdge, FallingEdge}
    THEN /\ UNCHANGED <<state, direction, callbacks>>
         /\ hist' = Append(hist,
                HistEntry(pin, kind, FALSE, [ok |-> FALSE], <<>>, state))
    ELSE LET r == update_state(state, direction, pin,
                               IF pin = "Clk" THEN EdgeLevelInverted(kind)
                                              ELSE EdgeLevel(kind))
         IN  IF r.ok
             THEN LET fired == IF r.trigger
                               THEN <<[name |-> name,
                                       direction |-> r.direction]>>
                               ELSE <<>>
                  IN  /\ state' = r.new_state
                      /\ direction' = r.direction
                      /\ callbacks' = callbacks \o fired
                      /\ hist' = Append(hist,
                             HistEntry(pin, kind, TRUE, r, fired,
                                       r.new_state))
             ELSE /\ UNCHANGED <<state, direction, callbacks>>
                  /\ hist' = Append(hist,
                         HistEntry(pin, kind, TRUE, r, <<>>, state))

\* One run of the closure of line `pin` on an event of kind `kind`.
Handler(pin, kind) ==
    LET old_state == state
        old_direction == direction
    IN  IF kind \notin {RisingEdge, FallingEdge}
        THEN \* error!("Unexpected event trigger"); return
             /\ UNCHANGED <<state, direction, callbacks>>
             /\ hist' = Append(hist,
                    HistEntry(pin, kind, FALSE, [ok |-> FALSE], <<>>, state))
        ELSE LET r == update_state(old_state, old_direction, pin,
                                   EdgeLevel(kind))
             IN  IF r.ok
                 THEN LET fired == IF r.trigger
                                   THEN <<[name |-> name,
                                           direction |-> r.direction]>>
                                   ELSE <<>>
                      IN  /\ state' = r.new_state
                          /\ direction' = r.direction
                          /\ callbacks' = callbacks \o fired
                          /\ hist' = Append(hist,
                                 HistEntry(pin, kind, TRUE, r, fired,
                                           r.new_state))
                 ELSE /\ UNCHANGED <<state, direction, callbacks>>
                      /\ hist' = Append(hist,
                             HistEntry(pin, kind, TRUE, r, <<>>, state))

\* Encoder::new: state 0, direction None; nothing delivered yet
EncoderInit ==
    /\ state = 0
    /\ direction = None
    /\ callbacks = <<>>
    /\ hist = <<>>

\* no call of update_state is being traced
DecodeIdle ==
    /\ d_pc = "idle"
    /\ d_old_state = 0
    /\ d_direction = None
    /\ d_pin = "Clk"
    /\ d_level = 0
    /\ d_new_state = 0
    /\ d_trans = 0
    /\ d_out = [ok |-> FALSE]

\* no handler thread is running
IdleThread == [pc |-> "idle", kind |-> RisingEdge, old_state |-> 0,
               old_direction |-> None, r |-> [ok |-> FALSE]]

ThreadsIdle ==
    /\ th = [p \in Pin |-> IdleThread]
    /\ written = {<<0, None>>}

\* an encoder without shifted name and without switch pin
ConfigNeither == [name_shifted |-> FALSE, sw_pin |-> FALSE]

ShiftIdle ==
    /\ sw_pin = High
    /\ cfg = ConfigNeither

\* a switch in simple mode that has seen no event
SwitchIdle ==
    /\ sw_callbacks = <<>>
    /\ press_start = Absent
    /\ sw_events = <<>>
    /\ long_press = FALSE

\* the one rotary encoder of the specifications that construct no other
rotary == "rotary"

\* the fields of Encoder that are Arc cells, and the holders of a reference:
\* the encoder itself and the closure registered on each line
Cell == {"name", "state", "direction", "callback"}
Holder == {"encoder", "Dt", "Clk"}

Sub(e, pin) == [enc |-> e, pin |-> pin]
Ref(e, cell, holder) == [enc |-> e, cell |-> cell, holder |-> holder]

\* variant: the closures take no reference of their own
ClosureHoldsNothing == {}

\* the cells each closure clones a reference to (Arc::clone, then move)
ClosureHolds == Cell

\* the pins, subscriptions and references of a constructed rotary encoder
EncoderSubs(e) == {Sub(e, pin) : pin \in Pin}
EncoderRefs(e) ==
    {Ref(e, cell, "encoder") : cell \in Cell}
        \cup {Ref(e, cell, pin) : cell \in ClosureHolds, pin \in Pin}

\* the encoder is constructed and alive
LifeIdle ==
    /\ subs = EncoderSubs(rotary)
    /\ pins = EncoderSubs(rotary)
    /\ owners = EncoderRefs(rotary)
    /\ drop_at = 0
    /\ stale = FALSE
    /\ pc = [at |-> "returned", stage |-> "rot", i |-> 1,
             rotaries |-> <<rotary>>, switches |-> <<>>]
    /\ built = {rotary}
    /\ result = "Ok"

OutsideIdle == ThreadsIdle /\ ShiftIdle /\ SwitchIdle /\ LifeIdle

Init == EncoderInit /\ DecodeIdle /\ OutsideIdle

\* the closure registered on dt_pin runs
DtInterrupt ==
    /\ Len(hist) < MaxEdges
    /\ \E kind \in Trigger : Handler("Dt", kind)
    /\ UNCHANGED outside_enc

\* the closure registered on clk_pin runs
ClkInterrupt ==
    /\ Len(hist) < MaxEdges
    /\ \E kind \in Trigger : Handler("Clk", kind)
    /\ UNCHANGED outside_enc

Next == DtInterrupt \/ ClkInterrupt

Spec == Init /\ [][Next]_vars

----------------------------------------------------------------------------
(* CycleSpec: the environment turns the knob one full detent at a time *)

Edge(pin, kind) == [pin |-> pin, kind |-> kind]

\* 00 -> 01 -> 11 -> 10 -> 00: CLK to 1, DT to 1, CLK to 0, DT to 0
CwEdges == <<Edge("Clk", FallingEdge), Edge("Dt", FallingEdge),
             Edge("Clk", RisingEdge), Edge("Dt", RisingEdge)>>

\* 00 -> 10 -> 11 -> 01 -> 00: DT to 1, CLK to 1, DT to 0, CLK to 0
CcwEdges == <<Edge("Dt", FallingEdge), Edge("Clk", FallingEdge),
              Edge("Dt", RisingEdge), Edge("Clk", RisingEdge)>>

Delivered(i) == Edge(hist[i].pin, hist[i].kind)

\* the edges of the cycle that the i-th delivered event belongs to
CycleOf(i) ==
    LET first == i - ((i - 1) % 4)
    IN  IF Delivered(first) = CwEdges[1] THEN CwEdges ELSE CcwEdges

\* (pin, kind) continues the cycle under way, or starts a new one
IsNextCycleEdge(pin, kind) ==
    LET n == Len(hist) + 1
        pos == ((n - 1) % 4) + 1
    IN  IF pos = 1
        THEN Edge(pin, kind) \in {CwEdges[1], CcwEdges[1]}
        ELSE Edge(pin, kind) = CycleOf(n)[pos]

CycleDtInterrupt ==
    /\ Len(hist) < 4 * MaxCycles
    /\ \E kind \in Trigger :
          IsNextCycleEdge("Dt", kind) /\ Handler("Dt", kind)
    /\ UNCHANGED outside_enc

CycleClkInterrupt ==
    /\ Len(hist) < 4 * MaxCycles
    /\ \E kind \in Trigger :
          IsNextCycleEdge("Clk", kind) /\ Handler("Clk", kind)
    /\ UNCHANGED outside_enc

CycleNext == CycleDtInterrupt \/ CycleClkInterrupt

CycleSpec == Init /\ [][CycleNext]_vars

----------------------------------------------------------------------------
(* DecodeSpec: one call of update_state, traced through its two steps,    *)
(* on every input the handlers can pass: old_state in 0..3, level in 0..1 *)

DecodeArguments ==
    /\ d_pc = "call"
    /\ d_old_state \in States
    /\ d_direction \in Direction
    /\ d_pin \in Pin
    /\ d_level \in Levels
    /\ d_new_state = 0
    /\ d_trans = 0
    /\ d_out = [ok |-> FALSE]

\* variant: the old state is read from the persisted cell, not the argument
ComputeTransitionReadsCell ==
    /\ d_pc = "call"
    /\ d_new_state' = NewState(state, d_pin, d_level)
    /\ d_trans' = TransState(state, d_new_state')
    /\ d_pc' = "match"
    /\ UNCHANGED <<d_old_state, d_direction, d_pin, d_level, d_out>>
    /\ UNCHANGED outside_dec

\* lines 78-82: new_state and trans_state
ComputeTransition ==
    /\ d_pc = "call"
    /\ d_new_state' = NewState(d_old_state, d_pin, d_level)
    /\ d_trans' = TransState(d_old_state, d_new_state')
    /\ d_pc' = "match"
    /\ UNCHANGED <<d_old_state, d_direction, d_pin, d_level, d_out>>
    /\ UNCHANGED outside_dec

\* lines 84-113: the match on trans_state and the value returned
LookupTable ==
    /\ d_pc = "match"
    /\ d_out' = Result(d_old_state, d_direction, d_new_state, d_trans,
                       Table(d_trans, d_direction))
    /\ d_pc' = "done"
    /\ UNCHANGED <<d_old_state, d_direction, d_pin, d_level,
                   d_new_state, d_trans>>
    /\ UNCHANGED outside_dec

DecodeNext == ComputeTransition \/ LookupTable

DecodeInit == EncoderInit /\ DecodeArguments /\ OutsideIdle

DecodeSpec == DecodeInit /\ [][DecodeNext]_vars

(* TableSpec: the match on trans_state alone, entered with every word up *)
(* to MaxWord, also those that no call of update_state can form          *)

TableWords ==
    /\ d_pc = "match"
    /\ d_trans \in 0 .. MaxWord
    /\ d_direction \in Direction
    /\ d_old_state = d_trans \div 4
    /\ d_new_state = d_trans % 4
    /\ d_pin = "Clk"
    /\ d_level = 0
    /\ d_out = [ok |-> FALSE]

TableNext == LookupTable

TableInit == EncoderInit /\ TableWords /\ OutsideIdle

TableSpec == TableInit /\ [][TableNext]_vars

----------------------------------------------------------------------------
(* Properties of the serial dispatcher *)

\* the first n delivered events are the first n of `edges`
StartsWith(edges, n) ==
    /\ Len(hist) >= n
    /\ \A i \in 1 .. n : Delivered(i) = edges[i]

CallbackOf(d) == [name |-> name, direction |-> d]

CwStates == <<1, 3, 2, 0>>
CcwStates == <<2, 3, 1, 0>>

\* C1: from the initial encoder the edges CLK to 1, DT to 1, CLK to 0,
\* DT to 0 all decode, take the state through 01, 11, 10, 00, and fire
\* exactly one callback, on the fourth edge, with direction Clockwise.
C1_ClockwiseCycle ==
    \A n \in 1 .. 4 :
        StartsWith(CwEdges, n) =>
            /\ hist[n].ok
            /\ hist[n].after = CwStates[n]
            /\ hist[n].trigger = (n = 4)
            /\ hist[n].fired =
                   IF n = 4 THEN <<CallbackOf(Clockwise)>> ELSE <<>>
            /\ Len(hist) = n =>
                   /\ state = CwStates[n]
                   /\ direction = Clockwise
                   /\ callbacks =
                          IF n = 4 THEN <<CallbackOf(Clockwise)>> ELSE <<>>

C1_Witness ==
    /\ Len(hist) = 4
    /\ StartsWith(CwEdges, 4)
    /\ callbacks = <<CallbackOf(Clockwise)>>

\* C2: from the initial encoder the edges DT to 1, CLK to 1, DT to 0,
\* CLK to 0 all decode, take the state through 10, 11, 01, 00, and fire
\* exactly one callback, on the fourth edge, with direction
\* CounterClockwise.
C2_CounterClockwiseCycle ==
    \A n \in 1 .. 4 :
        StartsWith(CcwEdges, n) =>
            /\ hist[n].ok
            /\ hist[n].after = CcwStates[n]
            /\ hist[n].trigger = (n = 4)
            /\ hist[n].fired =
                   IF n = 4 THEN <<CallbackOf(CounterClockwise)>> ELSE <<>>
            /\ Len(hist) = n =>
                   /\ state = CcwStates[n]
                   /\ direction = CounterClockwise
                   /\ callbacks =
                          IF n = 4 THEN <<CallbackOf(CounterClockwise)>>
                                   ELSE <<>>

C2_Witness ==
    /\ Len(hist) = 4
    /\ StartsWith(CcwEdges, 4)
    /\ callbacks = <<CallbackOf(CounterClockwise)>>

\* direction of the cycle that the i-th delivered event belongs to
CycleDirection(i) ==
    IF CycleOf(i) = CwEdges THEN Clockwise ELSE CounterClockwise

\* the callbacks fired by the first n delivered events, in order
RECURSIVE FiredUpTo(_)
FiredUpTo(n) == IF n = 0 THEN <<>> ELSE FiredUpTo(n - 1) \o hist[n].fired

\* C3 (CycleSpec): when complete cycles, clockwise or counter-clockwise in
\* any mix, are delivered serially from the initial state, every edge
\* decodes, the number of callbacks equals the number of completed cycles,
\* the i-th callback carries the direction of the i-th cycle, and it is
\* fired by the last edge of that cycle.
C3_OneCallbackPerCycle ==
    /\ \A i \in 1 .. Len(hist) :
          /\ hist[i].ok
          /\ hist[i].fired =
                 IF i % 4 = 0 THEN <<CallbackOf(CycleDirection(i))>>
                              ELSE <<>>
    /\ Len(callbacks) = Len(hist) \div 4
    /\ \A k \in 1 .. Len(callbacks) :
          callbacks[k] = CallbackOf(CycleDirection(4 * k))
    /\ callbacks = FiredUpTo(Len(hist))

\* three cycles done, the second against the sense of the first and third
C3_Witness ==
    /\ Len(hist) = 12
    /\ callbacks = <<CallbackOf(Clockwise), CallbackOf(CounterClockwise),
                     CallbackOf(Clockwise)>>

\* the events whose decode succeeded, in order
Decoded == SelectSeq(hist, LAMBDA h : h.ok)

\* the persisted state before the k-th successful decode (k = 1 ..) and,
\* at k = Len(Decoded) + 1, after the last of them
StateAt(k) == IF k = 1 THEN 0 ELSE Decoded[k - 1].after

\* C4: a trigger fires only for a full detent: whenever an edge triggers,
\* the four latest state changes, that edge's included, are the four half
\* steps of one cycle in one sense, starting from rest (00).  So
\* 00 -> 01 -> 11 -> 01 -> 00 fires nothing.
C4_TriggerOnlyAfterFullCycle ==
    \A k \in 1 .. Len(Decoded) :
        Decoded[k].trigger =>
            /\ k >= 4
            /\ StateAt(k - 3) = 0
            /\ \/ \A j \in 1 .. 4 : StateAt(k - 3 + j) = CwStates[j]
               \/ \A j \in 1 .. 4 : StateAt(k - 3 + j) = CcwStates[j]

----------------------------------------------------------------------------
(* Properties of the decoder *)

Done == d_pc = "done"

\* C5: a decode with transition word 0100 (old state 01, CLK goes to 0)
\* returns state 00, direction CounterClockwise and trigger = true when
\* old_direction is CounterClockwise, and an error when old_direction is
\* Clockwise or None.
C5_Word0100 ==
    (Done /\ d_trans = 4) =>
        /\ d_old_state = 1 /\ d_pin = "Clk" /\ d_level = 0
        /\ IF d_direction = CounterClockwise
           THEN d_out = DecodeOk(0, CounterClockwise, TRUE)
           ELSE d_out = DecodeErr(1, d_direction, 4)

C5_Witness ==
    /\ Done /\ d_trans = 4 /\ d_direction = CounterClockwise
    /\ d_out.ok /\ d_out.trigger

\* C6: a decode with transition word 1000 (old state 10, DT goes to 0)
\* returns state 00, direction Clockwise and trigger = true when
\* old_direction is Clockwise, and an error when old_direction is
\* CounterClockwise or None.
C6_Word1000 ==
    (Done /\ d_trans = 8) =>
        /\ d_old_state = 2 /\ d_pin = "Dt" /\ d_level = 0
        /\ IF d_direction = Clockwise
           THEN d_out = DecodeOk(0, Clockwise, TRUE)
           ELSE d_out = DecodeErr(2, d_direction, 8)

C6_Witness ==
    /\ Done /\ d_trans = 8 /\ d_direction = Clockwise
    /\ d_out.ok /\ d_out.trigger

\* the words with an unguarded arm, and the two with a guarded trigger
SingleSteps == {1, 2, 7, 11, 13, 14}
GuardedTriggers == {4, 8}

C8_Words0000And0011Fail ==
    (Done /\ d_trans \in {0, 3}) =>
        d_out = DecodeErr(0, d_direction, d_trans)

C8_Witness ==
    Done /\ d_trans = 3 /\ d_direction = Clockwise /\ ~d_out.ok

\* C9: for every old_direction a decode with word 0001, 0111 or 1110
\* succeeds with direction Clockwise and trigger = false, and one with
\* word 0010, 1011 or 1101 succeeds with direction CounterClockwise and
\* trigger = false: the result is fixed by the word alone.
C9_SingleSteps ==
    /\ (Done /\ d_trans \in {1, 7, 14}) =>
           d_out = DecodeOk(d_trans % 4, Clockwise, FALSE)
    /\ (Done /\ d_trans \in {2, 11, 13}) =>
           d_out = DecodeOk(d_trans % 4, CounterClockwise, FALSE)

C9_Witness ==
    /\ Done /\ d_trans = 7 /\ d_direction = CounterClockwise
    /\ d_out.ok /\ d_out.direction = Clockwise /\ ~d_out.trigger

\* C10: on a successful decode a CLK edge sets bit 0 of the state to the
\* new level and keeps bit 1, and a DT edge sets bit 1 to the new level
\* and keeps bit 0.
C10_OnlyOwnedBitChanges ==
    (Done /\ d_out.ok) =>
        /\ d_out.new_state \in States
        /\ d_pin = "Clk" =>
              /\ d_out.new_state % 2 = d_level
              /\ d_out.new_state \div 2 = d_old_state \div 2
        /\ d_pin = "Dt" =>
              /\ d_out.new_state \div 2 = d_level
              /\ d_out.new_state % 2 = d_old_state % 2

C10_Witness ==
    /\ Done /\ d_out.ok /\ d_pin = "Dt" /\ d_old_state = 1 /\ d_level = 1
    /\ d_out.new_state = 3

----------------------------------------------------------------------------
(* Properties of one run of a closure (Spec) *)

Edges == {RisingEdge, FallingEdge}

\* C11: when update_state returns an error for an edge, the closure stores
\* neither state nor direction and calls no callback: the persisted pair
\* after the edge is the pair before it.
C11_ErrorStoresNothing ==
    [][LET e == hist'[Len(hist')]
       IN  (/\ Len(hist') = Len(hist) + 1
            /\ e.kind \in Edges
            /\ ~update_state(state, direction, e.pin, EdgeLevel(e.kind)).ok)
           => /\ state' = state
              /\ direction' = direction
              /\ callbacks' = callbacks
              /\ e.fired = <<>>]_vars

\* CLK to 1 was decoded, then DT to 0 was dropped: the pair is still
\* (01, Clockwise)
C11_Witness ==
    /\ Len(hist) = 2
    /\ hist[1].ok
    /\ hist[2].decoded /\ ~hist[2].ok
    /\ Delivered(2) = Edge("Dt", RisingEdge)
    /\ state = 1 /\ direction = Clockwise

\* C14: an event whose kind is neither rising nor falling is discarded:
\* update_state is not called, state and direction keep their values and
\* no callback is called.
C14_OtherKindDiscarded ==
    [][LET e == hist'[Len(hist')]
       IN  (Len(hist') = Len(hist) + 1 /\ e.kind \notin Edges)
           => /\ ~e.decoded
              /\ state' = state
              /\ direction' = direction
              /\ callbacks' = callbacks
              /\ e.fired = <<>>]_vars

\* an event of another kind arrived on DT while the encoder was at
\* (01, Clockwise), where a falling edge would have been decoded
C14_Witness ==
    /\ Len(hist) = 2
    /\ hist[1].ok
    /\ Delivered(2) = Edge("Dt", OtherTrigger)
    /\ ~hist[2].decoded
    /\ state = 1 /\ direction = Clockwise

\* C17: with neither shifted name nor switch pin, every edge whose decode
\* triggers calls the callback exactly once, with the base name and the
\* direction the decode returned; no other event calls it, and no
\* callback carries another name.
C17_BaseNameOnly ==
    [][LET e == hist'[Len(hist')]
           r == update_state(state, direction, e.pin, EdgeLevel(e.kind))
       IN  Len(hist') = Len(hist) + 1
           => /\ cfg = ConfigNeither
              /\ IF e.kind \in Edges /\ r.ok /\ r.trigger
                 THEN callbacks' = Append(callbacks,
                          [name |-> name, direction |-> r.direction])
                 ELSE callbacks' = callbacks
              /\ \A k \in 1 .. Len(callbacks') :
                    callbacks'[k].name = name]_vars

\* a trigger on the sixth event, after two events that fired nothing
C17_Witness ==
    /\ Len(hist) = 6
    /\ hist[6].trigger
    /\ ~hist[1].ok
    /\ hist[2].kind = OtherTrigger
    /\ callbacks = <<CallbackOf(CounterClockwise)>>

----------------------------------------------------------------------------
(* HealSpec: edges only, and on each line they alternate, as the level of *)
(* a physical line does; both lines start at level 0                      *)

\* the level of line `pin` after the first n delivered events
RECURSIVE LineLevel(_, _)
LineLevel(pin, n) ==
    IF n = 0 THEN 0
    ELSE IF hist[n].pin = pin /\ hist[n].kind \in Edges
         THEN EdgeLevel(hist[n].kind)
         ELSE LineLevel(pin, n - 1)

HealDtInterrupt ==
    /\ Len(hist) < MaxHealEdges
    /\ \E kind \in Edges :
          /\ EdgeLevel(kind) # LineLevel("Dt", Len(hist))
          /\ Handler("Dt", kind)
    /\ UNCHANGED outside_enc

HealClkInterrupt ==
    /\ Len(hist) < MaxHealEdges
    /\ \E kind \in Edges :
          /\ EdgeLevel(kind) # LineLevel("Clk", Len(hist))
          /\ Handler("Clk", kind)
    /\ UNCHANGED outside_enc

HealNext == HealDtInterrupt \/ HealClkInterrupt

HealSpec == Init /\ [][HealNext]_vars

\* both lines are at level 0 after the first n events
LinesAtRest(n) == LineLevel("Dt", n) = 0 /\ LineLevel("Clk", n) = 0

\* events n+1 .. n+4 are the four edges of `edges`
CycleAfter(n, edges) ==
    /\ Len(hist) >= n + 4
    /\ \A j \in 1 .. 4 : Delivered(n + j) = edges[j]

\* the callbacks fired by events n+1 .. n+4
FiredByCycleAfter(n) ==
    hist[n + 1].fired \o hist[n + 2].fired \o hist[n + 3].fired
        \o hist[n + 4].fired

\* some event before the n-th was dropped with a decode error
DroppedBefore(n) == \E i \in 1 .. n : hist[i].decoded /\ ~hist[i].ok

\* C12 (HealSpec): whenever both lines are back at level 0, after any
\* history of alternating edges, dropped ones included, the next complete
\* four-edge cycle fires exactly one callback, with that cycle's direction.
C12_SelfHeals ==
    \A n \in 0 .. Len(hist) :
        LinesAtRest(n) =>
            /\ CycleAfter(n, CwEdges) =>
                   FiredByCycleAfter(n) = <<CallbackOf(Clockwise)>>
            /\ CycleAfter(n, CcwEdges) =>
                   FiredByCycleAfter(n) = <<CallbackOf(CounterClockwise)>>

\* an edge was dropped at rest with the state left at 01; the counter-
\* clockwise cycle that follows still fires its one callback
C12_Witness ==
    /\ Len(hist) = 6
    /\ LinesAtRest(2)
    /\ DroppedBefore(2)
    /\ hist[2].after = 1
    /\ CycleAfter(2, CcwEdges)
    /\ ~hist[4].ok
    /\ FiredByCycleAfter(2) = <<CallbackOf(CounterClockwise)>>

----------------------------------------------------------------------------
(* ConcSpec: the two closures run on their own threads, one per pin, and  *)
(* every load and store of the two atomic cells is a step of its own      *)

Running == {p \in Pin : th[p].pc # "idle"}

\* the events delivered so far
Started == Len(hist) + Cardinality(Running)

\* the interrupt thread of `pin` calls the closure with an event
Deliver(pin) ==
    /\ th[pin].pc = "idle"
    /\ Started < MaxConcEdges
    /\ \E kind \in Trigger :
          th' = [th EXCEPT ![pin] =
                    [IdleThread EXCEPT !.pc = "load_state", !.kind = kind]]
    /\ UNCHANGED <<enc_vars, dec_vars, shift_vars, switch_vars, life_vars,
                   written>>

\* let old_state = state.load(Ordering::SeqCst)
LoadState(pin) ==
    /\ th[pin].pc = "load_state"
    /\ th' = [th EXCEPT ![pin].old_state = state,
                        ![pin].pc = "load_direction"]
    /\ UNCHANGED <<enc_vars, dec_vars, shift_vars, switch_vars, life_vars,
                   written>>

\* let old_direction = direction.load(Ordering::SeqCst)
LoadDirection(pin) ==
    /\ th[pin].pc = "load_direction"
    /\ th' = [th EXCEPT ![pin].old_direction = direction,
                        ![pin].pc = "decode"]
    /\ UNCHANGED <<enc_vars, dec_vars, shift_vars, switch_vars, life_vars,
                   written>>

\* the closure of `pin` returns: its event joins the history
Return(pin, decoded, r, fired) ==
    /\ hist' = Append(hist,
           HistEntry(pin, th[pin].kind, decoded, r, fired, state'))
    /\ th' = [th EXCEPT ![pin] = IdleThread]

\* variant: new_state is computed in the closure and stored whatever the
\* decoder returns
DecodeIgnoresError(pin) ==
    /\ th[pin].pc = "decode"
    /\ UNCHANGED <<state, direction, callbacks>>
    /\ IF th[pin].kind \notin Edges
       THEN Return(pin, FALSE, [ok |-> FALSE], <<>>)
       ELSE LET r == update_state(th[pin].old_state, th[pin].old_direction,
                                  pin, EdgeLevel(th[pin].kind))
                kept == [ok |-> FALSE,
                         new_state |-> NewState(th[pin].old_state, pin,
                                                EdgeLevel(th[pin].kind)),
                         direction |-> th[pin].old_direction,
                         trigger |-> FALSE]
            IN  /\ th' = [th EXCEPT ![pin].r = IF r.ok THEN r ELSE kept,
                                    ![pin].pc = "store_state"]
                /\ UNCHANGED hist
    /\ UNCHANGED <<dec_vars, shift_vars, switch_vars, life_vars, written>>

\* match event.trigger and the call of update_state
Decode(pin) ==
    /\ th[pin].pc = "decode"
    /\ UNCHANGED <<state, direction, callbacks>>
    /\ IF th[pin].kind \notin Edges
       THEN Return(pin, FALSE, [ok |-> FALSE], <<>>)
       ELSE LET r == update_state(th[pin].old_state, th[pin].old_direction,
                                  pin, EdgeLevel(th[pin].kind))
            IN  IF r.ok
                THEN /\ th' = [th EXCEPT ![pin].r = r,
                                         ![pin].pc = "store_state"]
                     /\ UNCHANGED hist
                ELSE Return(pin, TRUE, r, <<>>)
    /\ UNCHANGED <<dec_vars, shift_vars, switch_vars, life_vars, written>>

\* variant: on a trigger the callback is reached first; the state is not
\* stored on the way to it
StoreStateAfterCallback(pin) ==
    /\ th[pin].pc = "store_state"
    /\ state' = IF th[pin].r.trigger THEN state ELSE th[pin].r.new_state
    /\ th' = [th EXCEPT ![pin].pc = "store_direction"]
    /\ UNCHANGED <<direction, callbacks, hist>>
    /\ UNCHANGED <<dec_vars, shift_vars, switch_vars, life_vars, written>>

\* state.store(new_state, Ordering::SeqCst)
StoreState(pin) ==
    /\ th[pin].pc = "store_state"
    /\ state' = th[pin].r.new_state
    /\ th' = [th EXCEPT ![pin].pc = "store_direction"]
    /\ UNCHANGED <<direction, callbacks, hist>>
    /\ UNCHANGED <<dec_vars, shift_vars, switch_vars, life_vars, written>>

\* direction.store(new_direction, Ordering::SeqCst); if trigger { .. }
StoreDirection(pin) ==
    /\ th[pin].pc = "store_direction"
    /\ direction' = th[pin].r.direction
    /\ written' = written \cup {<<th[pin].r.new_state, th[pin].r.direction>>}
    /\ UNCHANGED <<state, callbacks>>
    /\ IF th[pin].r.trigger
       THEN /\ th' = [th EXCEPT ![pin].pc = "callback"]
            /\ UNCHANGED hist
       ELSE Return(pin, TRUE, th[pin].r, <<>>)
    /\ UNCHANGED <<dec_vars, shift_vars, switch_vars, life_vars>>

\* variant: the trigger is queued and the closure returns; the callback is
\* left to be made later
CallbackQueued(pin) ==
    /\ th[pin].pc = "callback"
    /\ UNCHANGED <<state, direction, callbacks>>
    /\ Return(pin, TRUE, th[pin].r,
              <<[name |-> name, direction |-> th[pin].r.direction]>>)
    /\ UNCHANGED <<dec_vars, shift_vars, switch_vars, life_vars, written>>

\* callback(&name, new_direction)
Callback(pin) ==
    /\ th[pin].pc = "callback"
    /\ UNCHANGED <<state, direction>>
    /\ LET fired == <<[name |-> name, direction |-> th[pin].r.direction]>>
       IN  /\ callbacks' = callbacks \o fired
           /\ Return(pin, TRUE, th[pin].r, fired)
    /\ UNCHANGED <<dec_vars, shift_vars, switch_vars, life_vars, written>>

ConcNext ==
    \E pin \in Pin :
        \/ Deliver(pin)
        \/ LoadState(pin)
        \/ LoadDirection(pin)
        \/ Decode(pin)
        \/ StoreState(pin)
        \/ StoreDirection(pin)
        \/ Callback(pin)

ConcSpec == Init /\ [][ConcNext]_vars

\* the cells and the callback log, as one value
Cells(s, d, c) == [state |-> s, direction |-> d, callbacks |-> c]

\* one whole run of the closure of `pin`, with nothing in between
RunClosure(c, pin, kind) ==
    IF kind \notin Edges
    THEN c
    ELSE LET r == update_state(c.state, c.direction, pin, EdgeLevel(kind))
         IN  IF ~r.ok
             THEN c
             ELSE Cells(r.new_state, r.direction,
                        c.callbacks \o
                            (IF r.trigger
                             THEN <<[name |-> name,
                                     direction |-> r.direction]>>
                             ELSE <<>>))

\* the orders of the handled events that keep the order of each line
SerialOrders ==
    LET n == Len(hist)
    IN  {f \in [1 .. n -> 1 .. n] :
            /\ \A i, j \in 1 .. n : i # j => f[i] # f[j]
            /\ \A i, j \in 1 .. n :
                  (i < j /\ hist[f[i]].pin = hist[f[j]].pin) => f[i] < f[j]}

\* the outcome of running the first k events of order f one after another
\* from the initial encoder
RECURSIVE SerialOutcome(_, _)
SerialOutcome(f, k) ==
    IF k = 0
    THEN Cells(0, None, <<>>)
    ELSE RunClosure(SerialOutcome(f, k - 1),
                    hist[f[k]].pin, hist[f[k]].kind)

\* C13 (ConcSpec): the closures of DT and CLK take effect atomically: once
\* the closures have returned, the persisted state and direction and the
\* callbacks fired are those of some serial order of the handled edges.
C13_HandlersSerializable ==
    (Running = {}) =>
        \E f \in SerialOrders :
            Cells(state, direction, callbacks) = SerialOutcome(f, Len(hist))

----------------------------------------------------------------------------
(* ShiftSpec: the encoder of src/src/rotary_encoder_switch.rs, which has  *)
(* a shifted name and a switch pin; the switch pin is only read           *)

name_shifted == "name_shifted"

ConfigBoth == [name_shifted |-> TRUE, sw_pin |-> TRUE]

\* let new_state = match pin { ... }
NewStateSwitch(old_state, pin, level) ==
    IF pin = "Clk" THEN (AndBit1(old_state) + level) % 256
                   ELSE (AndBit0(old_state) + Shl(level, 1)) % 256

\* let trans_state = (old_state << 2) + new_state
TransStateSwitch(old_state, new_state) ==
    (Shl(old_state, 2) + new_state) % 256

\* let direction = match trans_state { ... }, with the trigger flag it sets
TableSwitch(trans_state, old_direction) ==
    CASE trans_state = 1 -> TableOk(Clockwise, FALSE)
      [] trans_state = 2 -> TableOk(CounterClockwise, FALSE)
      [] trans_state = 7 -> TableOk(Clockwise, FALSE)
      [] trans_state = 4 /\ old_direction = CounterClockwise ->
             TableOk(CounterClockwise, TRUE)
      [] trans_state = 11 -> TableOk(CounterClockwise, FALSE)
      [] trans_state = 8 /\ old_direction = Clockwise ->
             TableOk(Clockwise, TRUE)
      [] trans_state = 13 -> TableOk(CounterClockwise, FALSE)
      [] trans_state = 14 -> TableOk(Clockwise, FALSE)
      [] trans_state = 12 /\ old_direction # None ->
             TableOk(old_direction, TRUE)
      [] OTHER -> TableErr

update_state_switch(old_state, old_direction, pin, level) ==
    LET new_state == NewStateSwitch(old_state, pin, level)
        trans_state == TransStateSwitch(old_state, new_state)
    IN  Result(old_state, old_direction, new_state, trans_state,
               TableSwitch(trans_state, old_direction))

\* variant: the test on the level read from the switch pin negated
ShiftHandlerInverted(pin, kind) ==
    IF kind \notin {RisingEdge, FallingEdge}
    THEN /\ UNCHANGED <<state, direction, callbacks>>
         /\ hist' = Append(hist,
                HistEntry(pin, kind, FALSE, [ok |-> FALSE], <<>>, state))
    ELSE LET r == update_state_switch(state, direction, pin,
                                      EdgeLevel(kind))
         IN  IF r.ok
             THEN LET fired ==
                          IF r.trigger
                          THEN IF sw_pin = High
                               THEN <<[name |-> name_shifted,
                                       direction |-> r.direction]>>
                               ELSE <<[name |-> name,
                                       direction |-> r.direction]>>
                          ELSE <<>>
                  IN  /\ state' = r.new_state
                      /\ direction' = r.direction
                      /\ callbacks' = callbacks \o fired
                      /\ hist' = Append(hist,
                             HistEntry(pin, kind, TRUE, r, fired,
                                       r.new_state))
             ELSE /\ UNCHANGED <<state, direction, callbacks>>
                  /\ hist' = Append(hist,
                         HistEntry(pin, kind, TRUE, r, <<>>, state))

\* One run of the closure of line `pin` of rotary_encoder_switch.rs.
ShiftHandler(pin, kind) ==
    LET old_state == state
        old_direction == direction
    IN  IF kind \notin {RisingEdge, FallingEdge}
        THEN \* error!("Unexpected event trigger"); return
             /\ UNCHANGED <<state, direction, callbacks>>
             /\ hist' = Append(hist,
                    HistEntry(pin, kind, FALSE, [ok |-> FALSE], <<>>, state))
        ELSE LET r == update_state_switch(old_state, old_direction, pin,
                                          EdgeLevel(kind))
             IN  IF r.ok
                 THEN LET fired ==
                              IF r.trigger
                              THEN \* match sw_pin.read() == Level::High
                                   IF sw_pin = High
                                   THEN <<[name |-> name,
                                           direction |-> r.direction]>>
                                   ELSE <<[name |-> name_shifted,
                                           direction |-> r.direction]>>
                              ELSE <<>>
                      IN  /\ state' = r.new_state
                          /\ direction' = r.direction
                          /\ callbacks' = callbacks \o fired
                          /\ hist' = Append(hist,
                                 HistEntry(pin, kind, TRUE, r, fired,
                                           r.new_state))
                 ELSE /\ UNCHANGED <<state, direction, callbacks>>
                      /\ hist' = Append(hist,
                             HistEntry(pin, kind, TRUE, r, <<>>, state))

\* Encoder::new of rotary_encoder_switch.rs; the switch may be held down
ShiftInit ==
    /\ EncoderInit /\ DecodeIdle /\ ThreadsIdle /\ SwitchIdle /\ LifeIdle
    /\ sw_pin \in Level
    /\ cfg = ConfigBoth

ShiftDtInterrupt ==
    /\ Len(hist) < MaxShiftEdges
    /\ \E kind \in Trigger : ShiftHandler("Dt", kind)
    /\ UNCHANGED <<dec_vars, conc_vars, shift_vars, switch_vars, life_vars>>

ShiftClkInterrupt ==
    /\ Len(hist) < MaxShiftEdges
    /\ \E kind \in Trigger : ShiftHandler("Clk", kind)
    /\ UNCHANGED <<dec_vars, conc_vars, shift_vars, switch_vars, life_vars>>

\* the push switch is pressed (the pin falls to Low) or released; no
\* closure is registered on the switch pin, the change is only recorded
SwitchPinChange ==
    /\ Len(hist) < MaxShiftEdges
    /\ sw_pin' = IF sw_pin = High THEN Low ELSE High
    /\ hist' = Append(hist,
           HistEntry("Sw", IF sw_pin = High THEN FallingEdge ELSE RisingEdge,
                     FALSE, [ok |-> FALSE], <<>>, state))
    /\ UNCHANGED <<state, direction, callbacks, cfg>>
    /\ UNCHANGED <<dec_vars, conc_vars, switch_vars, life_vars>>

ShiftNext == ShiftDtInterrupt \/ ShiftClkInterrupt \/ SwitchPinChange

ShiftSpec == ShiftInit /\ [][ShiftNext]_vars

\* C15 (ShiftSpec): with shifted name and switch pin configured, every
\* edge whose decode triggers calls the callback exactly once, with the
\* shifted name if the switch pin reads Low when that edge is handled and
\* with the base name if it reads High, and with the direction the decode
\* returned; the level at earlier edges of the rotation plays no part.
C15_NameByLevelAtTrigger ==
    [][LET e == hist'[Len(hist')]
           r == update_state_switch(state, direction, e.pin,
                                    EdgeLevel(e.kind))
       IN  (/\ Len(hist') = Len(hist) + 1
            /\ e.pin \in Pin
            /\ e.kind \in Edges
            /\ r.ok /\ r.trigger)
           => /\ cfg = ConfigBoth
              /\ direction' = r.direction
              /\ callbacks' = Append(callbacks,
                     [name |-> IF sw_pin = Low THEN name_shifted ELSE name,
                      direction |-> r.direction])]_vars

\* the switch was up when the rotation began and went down before its
\* last edge: the shifted name is reported
C15_Witness ==
    /\ Len(hist) = 5
    /\ Delivered(1) = CwEdges[1]
    /\ Delivered(2) = CwEdges[2]
    /\ Delivered(3) = Edge("Sw", FallingEdge)
    /\ Delivered(4) = CwEdges[3]
    /\ Delivered(5) = CwEdges[4]
    /\ callbacks = <<[name |-> name_shifted, direction |-> Clockwise]>>

----------------------------------------------------------------------------
(* ConfigSpec: the encoder that PiInput::new constructs, with an optional *)
(* shifted name and an optional switch pin.  Its closures are modelled    *)
(* from the design of the dispatcher: decode, persist, then resolve the   *)
(* name from what is configured.                                          *)

ConfigOnlyName == [name_shifted |-> TRUE, sw_pin |-> FALSE]
ConfigOnlyPin == [name_shifted |-> FALSE, sw_pin |-> TRUE]
Configs == {ConfigNeither, ConfigBoth, ConfigOnlyName, ConfigOnlyPin}

\* the callbacks of a trigger with direction d under configuration cfg
ResolvedCallback(d) ==
    IF ~cfg.name_shifted /\ ~cfg.sw_pin
    THEN <<[name |-> name, direction |-> d]>>
    ELSE IF cfg.name_shifted /\ cfg.sw_pin
         THEN IF sw_pin = Low
              THEN <<[name |-> name_shifted, direction |-> d]>>
              ELSE <<[name |-> name, direction |-> d]>>
         ELSE \* configuration error: diagnostic, no callback
              <<>>

\* variant: with one of the two missing, the base name is reported
ConfigHandlerGuesses(pin, kind) ==
    IF kind \notin {RisingEdge, FallingEdge}
    THEN /\ UNCHANGED <<state, direction, callbacks>>
         /\ hist' = Append(hist,
                HistEntry(pin, kind, FALSE, [ok |-> FALSE], <<>>, state))
    ELSE LET r == update_state(state, direction, pin, EdgeLevel(kind))
         IN  IF r.ok
             THEN LET fired ==
                          IF r.trigger
                          THEN IF cfg.name_shifted /\ cfg.sw_pin
                               THEN ResolvedCallback(r.direction)
                               ELSE <<[name |-> name,
                                       direction |-> r.direction]>>
                          ELSE <<>>
                  IN  /\ state' = r.new_state
                      /\ direction' = r.direction
                      /\ callbacks' = callbacks \o fired
                      /\ hist' = Append(hist,
                             HistEntry(pin, kind, TRUE, r, fired,
                                       r.new_state))
             ELSE /\ UNCHANGED <<state, direction, callbacks>>
                  /\ hist' = Append(hist,
                         HistEntry(pin, kind, TRUE, r, <<>>, state))

\* One run of the closure of line `pin`.
ConfigHandler(pin, kind) ==
    IF kind \notin {RisingEdge, FallingEdge}
    THEN /\ UNCHANGED <<state, direction, callbacks>>
         /\ hist' = Append(hist,
                HistEntry(pin, kind, FALSE, [ok |-> FALSE], <<>>, state))
    ELSE LET r == update_state(state, direction, pin, EdgeLevel(kind))
         IN  IF r.ok
             THEN LET fired == IF r.trigger
                               THEN ResolvedCallback(r.direction)
                               ELSE <<>>
                  IN  /\ state' = r.new_state
                      /\ direction' = r.direction
                      /\ callbacks' = callbacks \o fired
                      /\ hist' = Append(hist,
                             HistEntry(pin, kind, TRUE, r, fired,
                                       r.new_state))
             ELSE /\ UNCHANGED <<state, direction, callbacks>>
                  /\ hist' = Append(hist,
                         HistEntry(pin, kind, TRUE, r, <<>>, state))

ConfigInit ==
    /\ EncoderInit /\ DecodeIdle /\ ThreadsIdle /\ SwitchIdle /\ LifeIdle
    /\ cfg \in Configs
    /\ sw_pin \in (IF cfg.sw_pin THEN Level ELSE {High})

ConfigDtInterrupt ==
    /\ Len(hist) < MaxShiftEdges
    /\ \E kind \in Trigger : ConfigHandler("Dt", kind)
    /\ UNCHANGED <<dec_vars, conc_vars, shift_vars, switch_vars, life_vars>>

ConfigClkInterrupt ==
    /\ Len(hist) < MaxShiftEdges
    /\ \E kind \in Trigger : ConfigHandler("Clk", kind)
    /\ UNCHANGED <<dec_vars, conc_vars, shift_vars, switch_vars, life_vars>>

\* the level of a configured switch pin changes
ConfigSwitchPinChange ==
    /\ cfg.sw_pin
    /\ SwitchPinChange

ConfigNext ==
    ConfigDtInterrupt \/ ConfigClkInterrupt \/ ConfigSwitchPinChange

ConfigSpec == ConfigInit /\ [][ConfigNext]_vars

ExactlyOneConfigured == cfg.name_shifted # cfg.sw_pin

\* C16 (ConfigSpec): with exactly one of shifted name and switch pin
\* configured no callback is ever called, also not by an edge whose decode
\* triggers, while every edge is decoded as usual: a successful decode
\* stores its state and direction, any other event stores nothing.
C16_OneConfiguredNoCallback ==
    [][LET e == hist'[Len(hist')]
           r == update_state(state, direction, e.pin, EdgeLevel(e.kind))
       IN  (/\ Len(hist') = Len(hist) + 1
            /\ e.pin \in Pin
            /\ ExactlyOneConfigured)
           => /\ callbacks' = <<>>
              /\ IF e.kind \in Edges /\ r.ok
                 THEN /\ state' = r.new_state
                      /\ direction' = r.direction
                      /\ e.trigger = r.trigger
                 ELSE state' = state /\ direction' = direction]_vars

\* a clockwise detent whose trigger called nothing, and the next edge
\* decoded from the rest position
C16_Witness ==
    /\ cfg = ConfigOnlyName
    /\ Len(hist) = 5
    /\ StartsWith(CwEdges, 4)
    /\ hist[4].trigger
    /\ hist[5].ok
    /\ state = 2 /\ direction = CounterClockwise
    /\ callbacks = <<>>

----------------------------------------------------------------------------
(* SwitchSpec: the switch encoder of src/src/switch_encoder.rs *)

\* the name the switch was constructed with
switch_name == "switch_name"

SwitchCallback(n, pressed) == [name |-> n, pressed |-> pressed]

\* Event { trigger, timestamp, .. }
SwitchEvent(kind, timestamp) == [kind |-> kind, timestamp |-> timestamp]

\* the timestamp of the latest event; timestamps never go back
LastTimestamp ==
    IF sw_events = <<>> THEN 0 ELSE sw_events[Len(sw_events)].timestamp

\* variant: the two edge kinds mapped the other way round
SwitchHandlerInverted(kind, timestamp) ==
    /\ sw_events' = Append(sw_events, SwitchEvent(kind, timestamp))
    /\ IF kind = RisingEdge
       THEN sw_callbacks' = Append(sw_callbacks,
                                   SwitchCallback(switch_name, TRUE))
       ELSE IF kind = FallingEdge
            THEN sw_callbacks' = Append(sw_callbacks,
                                        SwitchCallback(switch_name, FALSE))
            ELSE UNCHANGED sw_callbacks
    /\ UNCHANGED <<press_start, long_press>>

\* variant: only a falling edge is told apart, every other event is a release
SwitchHandlerOtherAsRelease(kind, timestamp) ==
    /\ sw_events' = Append(sw_events, SwitchEvent(kind, timestamp))
    /\ sw_callbacks' = Append(sw_callbacks,
                              SwitchCallback(switch_name, kind = FallingEdge))
    /\ UNCHANGED <<press_start, long_press>>

\* One run of the closure registered on the switch pin.
SwitchHandler(kind, timestamp) ==
    /\ sw_events' = Append(sw_events, SwitchEvent(kind, timestamp))
    /\ IF kind = RisingEdge
       THEN sw_callbacks' = Append(sw_callbacks,
                                   SwitchCallback(switch_name, FALSE))
       ELSE IF kind = FallingEdge
            THEN sw_callbacks' = Append(sw_callbacks,
                                        SwitchCallback(switch_name, TRUE))
            ELSE \* error!("Unexpected event trigger"); return
                 UNCHANGED sw_callbacks
    /\ UNCHANGED <<press_start, long_press>>

SwitchInit ==
    /\ EncoderInit /\ DecodeIdle /\ ThreadsIdle /\ ShiftIdle /\ LifeIdle
    /\ SwitchIdle

SwitchInterrupt ==
    /\ Len(sw_events) < MaxSwitchEvents
    /\ \E kind \in Trigger, timestamp \in LastTimestamp .. MaxTime :
          SwitchHandler(kind, timestamp)
    /\ UNCHANGED <<enc_vars, dec_vars, conc_vars, shift_vars, life_vars>>

SwitchNext == SwitchInterrupt

SwitchSpec == SwitchInit /\ [][SwitchNext]_vars

\* the rising and falling edges delivered to the switch, in order
EdgeEvents == SelectSeq(sw_events, LAMBDA e : e.kind \in Edges)

\* C18 (SwitchSpec): in simple mode the callback is called exactly once
\* per delivered edge, in the order of the edges, with (name, true) for a
\* falling edge and (name, false) for a rising edge; a falling edge
\* followed by a rising edge gives (name, true) then (name, false).
C18_OneCallbackPerEdge ==
    /\ ~long_press
    /\ sw_callbacks =
           [i \in 1 .. Len(EdgeEvents) |->
               SwitchCallback(switch_name,
                              EdgeEvents[i].kind = FallingEdge)]

C18_Witness ==
    /\ Len(sw_events) = 2
    /\ sw_events[1].kind = FallingEdge
    /\ sw_events[2].kind = RisingEdge
    /\ sw_callbacks = <<SwitchCallback(switch_name, TRUE),
                        SwitchCallback(switch_name, FALSE)>>

----------------------------------------------------------------------------
(* LongPressSpec: the switch classifier constructed with a long-press name *)
(* and a threshold, as tests/hardware_integration_test.rs constructs it.   *)

\* the long-press name the switch was constructed with
long_press_name == "long_press"

\* Some(Duration::from_secs(4)), in seconds
LongPressThreshold == 4

\* variant: the release timestamp itself is compared with the threshold
ClassifierHandlerAbsoluteTime(kind, timestamp) ==
    /\ UNCHANGED long_press
    /\ sw_events' = Append(sw_events, SwitchEvent(kind, timestamp))
    /\ IF kind = FallingEdge
       THEN /\ press_start' = Recorded(timestamp)
            /\ sw_callbacks' = Append(sw_callbacks,
                                      SwitchCallback(switch_name, TRUE))
       ELSE IF kind = RisingEdge
       THEN /\ press_start' = Absent
            /\ sw_callbacks' =
                 Append(sw_callbacks,
                        SwitchCallback(IF /\ press_start # Absent
                                          /\ timestamp > LongPressThreshold
                                       THEN long_press_name
                                       ELSE switch_name,
                                       FALSE))
       ELSE UNCHANGED <<press_start, sw_callbacks>>

\* variant: a release classified long keeps the press-start
ClassifierHandlerKeepsStart(kind, timestamp) ==
    /\ UNCHANGED long_press
    /\ sw_events' = Append(sw_events, SwitchEvent(kind, timestamp))
    /\ IF kind = FallingEdge
       THEN /\ press_start' = Recorded(timestamp)
            /\ sw_callbacks' = Append(sw_callbacks,
                                      SwitchCallback(switch_name, TRUE))
       ELSE IF kind = RisingEdge
       THEN IF /\ press_start # Absent
               /\ timestamp - press_start[1] > LongPressThreshold
            THEN /\ sw_callbacks' =
                      Append(sw_callbacks,
                             SwitchCallback(long_press_name, FALSE))
                 /\ UNCHANGED press_start
            ELSE /\ sw_callbacks' =
                      Append(sw_callbacks,
                             SwitchCallback(switch_name, FALSE))
                 /\ press_start' = Absent
       ELSE UNCHANGED <<press_start, sw_callbacks>>

\* variant: an absent press-start counts as a press at time 0
ClassifierHandlerAbsentAsZero(kind, timestamp) ==
    /\ UNCHANGED long_press
    /\ sw_events' = Append(sw_events, SwitchEvent(kind, timestamp))
    /\ IF kind = FallingEdge
       THEN /\ press_start' = Recorded(timestamp)
            /\ sw_callbacks' = Append(sw_callbacks,
                                      SwitchCallback(switch_name, TRUE))
       ELSE IF kind = RisingEdge
       THEN /\ press_start' = Absent
            /\ sw_callbacks' =
                 Append(sw_callbacks,
                        SwitchCallback(
                            IF timestamp - (IF press_start = Absent
                                            THEN 0 ELSE press_start[1])
                                  > LongPressThreshold
                            THEN long_press_name
                            ELSE switch_name,
                            FALSE))
       ELSE UNCHANGED <<press_start, sw_callbacks>>

\* variant: an elapsed time equal to the threshold already counts as long
ClassifierHandlerNonStrict(kind, timestamp) ==
    /\ UNCHANGED long_press
    /\ sw_events' = Append(sw_events, SwitchEvent(kind, timestamp))
    /\ IF kind = FallingEdge
       THEN /\ press_start' = Recorded(timestamp)
            /\ sw_callbacks' = Append(sw_callbacks,
                                      SwitchCallback(switch_name, TRUE))
       ELSE IF kind = RisingEdge
       THEN /\ press_start' = Absent
            /\ sw_callbacks' =
                 Append(sw_callbacks,
                        SwitchCallback(
                            IF /\ press_start # Absent
                               /\ timestamp - press_start[1]
                                     >= LongPressThreshold
                            THEN long_press_name
                            ELSE switch_name,
                            FALSE))
       ELSE UNCHANGED <<press_start, sw_callbacks>>

\* One run of the classifier in long-press mode.
ClassifierHandler(kind, timestamp) ==
    /\ UNCHANGED long_press
    /\ sw_events' = Append(sw_events, SwitchEvent(kind, timestamp))
    /\ IF kind = FallingEdge
       THEN \* record the event timestamp as press-start
            /\ press_start' = Recorded(timestamp)
            /\ sw_callbacks' = Append(sw_callbacks,
                                      SwitchCallback(switch_name, TRUE))
       ELSE IF kind = RisingEdge
       THEN \* elapsed = release_timestamp - press_start
            /\ press_start' = Absent
            /\ sw_callbacks' =
                 Append(sw_callbacks,
                        SwitchCallback(
                            IF /\ press_start # Absent
                               /\ timestamp - press_start[1] > LongPressThreshold
                            THEN long_press_name
                            ELSE switch_name,
                            FALSE))
       ELSE \* an event of another kind is discarded
            UNCHANGED <<press_start, sw_callbacks>>

LongPressInit ==
    /\ EncoderInit /\ DecodeIdle /\ ThreadsIdle /\ ShiftIdle /\ LifeIdle
    /\ sw_callbacks = <<>>
    /\ sw_events = <<>>
    /\ press_start = Absent
    /\ long_press = TRUE

LongPressInterrupt ==
    /\ Len(sw_events) < MaxSwitchEvents
    /\ \E kind \in Trigger, timestamp \in LastTimestamp .. MaxTime :
          ClassifierHandler(kind, timestamp)
    /\ UNCHANGED <<enc_vars, dec_vars, conc_vars, shift_vars, life_vars>>

LongPressNext == LongPressInterrupt

LongPressSpec == LongPressInit /\ [][LongPressNext]_vars

\* the latest rising or falling edge delivered so far
LastEdge == EdgeEvents[Len(EdgeEvents)]

\* the step delivers one more event, a rising edge, after a press
ReleaseAfterPress ==
    /\ long_press
    /\ Len(sw_events') = Len(sw_events) + 1
    /\ sw_events'[Len(sw_events')].kind = RisingEdge
    /\ EdgeEvents # <<>>
    /\ LastEdge.kind = FallingEdge

\* C19 (LongPressSpec): in long-press mode a release that follows a
\* recorded press reports (long_press_name, false) when the release
\* timestamp minus the press timestamp exceeds the threshold and
\* (name, false) otherwise; with the threshold of 4 s a press held 5 s
\* reports the long-press name and a press held 1 s the base name.
C19_ReleaseClassifiedByElapsed ==
    [][ReleaseAfterPress =>
          LET release == sw_events'[Len(sw_events')]
              elapsed == release.timestamp - LastEdge.timestamp
              reported == sw_callbacks'[Len(sw_callbacks')]
          IN  /\ Len(sw_callbacks') = Len(sw_callbacks) + 1
              /\ reported =
                   SwitchCallback(IF elapsed > LongPressThreshold
                                  THEN long_press_name
                                  ELSE switch_name,
                                  FALSE)
              /\ elapsed = 5 => reported.name = long_press_name
              /\ elapsed = 1 => reported.name = switch_name]_vars

C19_Witness ==
    /\ long_press
    /\ Len(sw_events) = 4
    /\ sw_events[1] = SwitchEvent(FallingEdge, 0)
    /\ sw_events[2] = SwitchEvent(RisingEdge, 1)
    /\ sw_events[3] = SwitchEvent(FallingEdge, 1)
    /\ sw_events[4] = SwitchEvent(RisingEdge, 6)
    /\ sw_callbacks = <<SwitchCallback(switch_name, TRUE),
                        SwitchCallback(switch_name, FALSE),
                        SwitchCallback(switch_name, TRUE),
                        SwitchCallback(long_press_name, FALSE)>>

\* C20 (LongPressSpec): in long-press mode the press-start is present
\* exactly between a press edge and the next release edge: it is absent
\* initially, a falling edge records the timestamp of its event, and every
\* rising edge leaves it absent, whether the release was long or short.
C20_PressStartWindow ==
    long_press =>
        press_start = IF EdgeEvents # <<>> /\ LastEdge.kind = FallingEdge
                      THEN Recorded(LastEdge.timestamp)
                      ELSE Absent

C20_Witness ==
    /\ long_press
    /\ Len(sw_events) = 3
    /\ sw_events[1] = SwitchEvent(FallingEdge, 0)
    /\ sw_events[2] = SwitchEvent(RisingEdge, 5)
    /\ sw_events[3] = SwitchEvent(FallingEdge, 6)
    /\ sw_callbacks[2] = SwitchCallback(long_press_name, FALSE)
    /\ press_start = Recorded(6)

\* the step delivers one more event, a rising edge, with no press before it
\* or with a release as the edge before it
ReleaseWithoutPress ==
    /\ long_press
    /\ Len(sw_events') = Len(sw_events) + 1
    /\ sw_events'[Len(sw_events')].kind = RisingEdge
    /\ \/ EdgeEvents = <<>>
       \/ LastEdge.kind = RisingEdge

\* C21 (LongPressSpec): in long-press mode a rising edge delivered while no
\* press-start is recorded (no press before it, or a release right before
\* it) calls the callback exactly once, with (name, false) and never the
\* long-press name, whatever the timestamp of the event.
C21_SpuriousReleaseIsShort ==
    [][ReleaseWithoutPress =>
          /\ press_start = Absent
          /\ sw_callbacks' =
                Append(sw_callbacks, SwitchCallback(switch_name, FALSE))]_vars

C21_Witness ==
    /\ long_press
    /\ Len(sw_events) = 3
    /\ sw_events[1] = SwitchEvent(RisingEdge, 5)
    /\ sw_events[2] = SwitchEvent(OtherTrigger, 5)
    /\ sw_events[3] = SwitchEvent(RisingEdge, 6)
    /\ sw_callbacks = <<SwitchCallback(switch_name, FALSE),
                        SwitchCallback(switch_name, FALSE)>>

\* the step delivers one more event to the switch, neither rising nor falling
OtherKindDelivered ==
    /\ Len(sw_events') = Len(sw_events) + 1
    /\ sw_events'[Len(sw_events')].kind \notin Edges

\* C22 (SwitchSpec): an event delivered to the switch whose kind is neither
\* rising nor falling calls no callback and changes no state of the
\* classifier.
C22_NonEdgeDiscarded ==
    [][OtherKindDelivered =>
          UNCHANGED <<sw_callbacks, press_start, long_press>>]_vars

C22_Witness ==
    /\ Len(sw_events) = 2
    /\ sw_events[1] = SwitchEvent(FallingEdge, 0)
    /\ sw_events[2] = SwitchEvent(OtherTrigger, 1)
    /\ sw_callbacks = <<SwitchCallback(switch_name, TRUE)>>

----------------------------------------------------------------------------
(* TeardownSpec: the encoder is dropped while its lines still deliver      *)
(* edges. Encoder has no Drop of its own, so its fields are dropped in     *)
(* the order of their declaration; dropping an InputPin unregisters its    *)
(* interrupt and drops the closure with the references it moved in.        *)

\* the fields of struct Encoder, in the order of their declaration
DropOrder == <<"name", "dt_pin", "clk_pin", "state", "direction", "callback">>

\* the line of a pin field
PinOf(field) == IF field = "dt_pin" THEN "Dt" ELSE "Clk"

\* a cell is released with its last reference
Released(cell) == \A r \in owners : ~(r.enc = rotary /\ r.cell = cell)

\* the cells one run of a closure touches: the two loads, and the name and
\* the callback when the decode triggers
Touched(entry) ==
    {"state", "direction"}
        \cup (IF entry.fired # <<>> THEN {"name", "callback"} ELSE {})

\* the closure registered on a line runs, as long as it is registered
TeardownInterrupt(pin) ==
    /\ Sub(rotary, pin) \in subs
    /\ Len(hist) < MaxTeardownEdges
    /\ \E kind \in Trigger : Handler(pin, kind)
    /\ stale' = (stale \/ \E cell \in Touched(hist'[Len(hist')]) :
                              Released(cell))
    /\ UNCHANGED <<dec_vars, conc_vars, shift_vars, switch_vars>>
    /\ UNCHANGED <<subs, pins, owners, drop_at, pc, built, result>>

TeardownDtInterrupt == TeardownInterrupt("Dt")
TeardownClkInterrupt == TeardownInterrupt("Clk")

\* the next field of the encoder is dropped
DropField ==
    /\ drop_at < Len(DropOrder)
    /\ drop_at' = drop_at + 1
    /\ LET field == DropOrder[drop_at + 1]
       IN  IF field \in {"dt_pin", "clk_pin"}
           THEN \* InputPin: the interrupt is cleared, the closure dropped
                /\ subs' = subs \ {Sub(rotary, PinOf(field))}
                /\ pins' = pins \ {Sub(rotary, PinOf(field))}
                /\ owners' = {r \in owners :
                                ~(r.enc = rotary /\ r.holder = PinOf(field))}
           ELSE \* Arc: the encoder's own reference is given up
                /\ owners' = owners \ {Ref(rotary, field, "encoder")}
                /\ UNCHANGED <<subs, pins>>
    /\ built' = built \ {rotary}
    /\ UNCHANGED <<enc_vars, dec_vars, conc_vars, shift_vars, switch_vars>>
    /\ UNCHANGED <<stale, pc, result>>

TeardownInit == EncoderInit /\ DecodeIdle /\ OutsideIdle

TeardownNext == TeardownDtInterrupt \/ TeardownClkInterrupt \/ DropField

TeardownSpec == TeardownInit /\ [][TeardownNext]_vars

TeardownComplete == drop_at = Len(DropOrder)

----------------------------------------------------------------------------
(* ConstructSpec: PiInput::new builds the rotary encoders, then the        *)
(* switches; acquiring a pin and registering an interrupt can each fail.   *)
(* A closure that is registered can run at any moment, during the          *)
(* construction too. Whether an edge triggers is the decoder's business:   *)
(* here a registered closure may or may not call back.                     *)

\* the definitions PiInput::new can be given
RotaryLists == {<<>>, <<rotary>>, <<rotary, "rotary_b">>}
SwitchLists == {<<>>, <<"switch">>, <<"switch", "switch_b">>}

\* the encoder under construction
Cur == IF pc.stage = "rot" THEN pc.rotaries[pc.i] ELSE pc.switches[pc.i]

At(label) == pc.at = label /\ result = "none"

Goto(label) == pc' = [pc EXCEPT !.at = label]

\* the switches are built after the rotary encoders, then Ok(Self {..})
StartSwitches ==
    IF pc.switches = <<>>
    THEN Goto("return_ok")
    ELSE pc' = [pc EXCEPT !.at = "sw_get", !.stage = "sw", !.i = 1]

StartRotaries ==
    IF pc.rotaries = <<>>
    THEN StartSwitches
    ELSE pc' = [pc EXCEPT !.at = "rot_get_dt", !.stage = "rot", !.i = 1]

\* the next element of the iterator that is being collected
NextEncoder ==
    IF pc.stage = "rot"
    THEN IF pc.i < Len(pc.rotaries)
         THEN pc' = [pc EXCEPT !.at = "rot_get_dt", !.i = pc.i + 1]
         ELSE StartSwitches
    ELSE IF pc.i < Len(pc.switches)
         THEN pc' = [pc EXCEPT !.at = "sw_get", !.i = pc.i + 1]
         ELSE Goto("return_ok")

ConstructFrame ==
    UNCHANGED <<state, direction, hist, dec_vars, conc_vars, shift_vars,
                press_start, sw_events, long_press, drop_at, stale>>

\* let gpio = Gpio::new()?
GpioNew ==
    /\ At("gpio_new")
    /\ \E ok \in BOOLEAN : IF ok THEN StartRotaries ELSE Goto("unwind")
    /\ UNCHANGED <<subs, pins, owners, built, result, callbacks,
                   sw_callbacks>>
    /\ ConstructFrame

\* let dt = gpio.get(dt_pin)?.into_input_pullup()
GetDt ==
    /\ At("rot_get_dt")
    /\ \E ok \in BOOLEAN :
          IF ok THEN /\ pins' = pins \cup {Sub(Cur, "Dt")}
                     /\ Goto("rot_get_clk")
                ELSE /\ UNCHANGED pins
                     /\ Goto("unwind")
    /\ UNCHANGED <<subs, owners, built, result, callbacks, sw_callbacks>>
    /\ ConstructFrame

\* let clk = gpio.get(clk_pin)?.into_input_pullup(); let mut encoder = Self {..}
GetClk ==
    /\ At("rot_get_clk")
    /\ \E ok \in BOOLEAN :
          IF ok THEN /\ pins' = pins \cup {Sub(Cur, "Clk")}
                     /\ owners' = owners
                           \cup {Ref(Cur, cell, "encoder") : cell \in Cell}
                     /\ Goto("rot_reg_dt")
                ELSE /\ UNCHANGED <<pins, owners>>
                     /\ Goto("unwind")
    /\ UNCHANGED <<subs, built, result, callbacks, sw_callbacks>>
    /\ ConstructFrame

\* self.dt_pin.set_async_interrupt(..)?
RegisterDt ==
    /\ At("rot_reg_dt")
    /\ \E ok \in BOOLEAN :
          IF ok THEN /\ subs' = subs \cup {Sub(Cur, "Dt")}
                     /\ owners' = owners
                           \cup {Ref(Cur, cell, "Dt") : cell \in ClosureHolds}
                     /\ Goto("rot_reg_clk")
                ELSE /\ UNCHANGED <<subs, owners>>
                     /\ Goto("unwind")
    /\ UNCHANGED <<pins, built, result, callbacks, sw_callbacks>>
    /\ ConstructFrame

\* variant: the result of the registration is not looked at
RegisterClkIgnoresError ==
    /\ At("rot_reg_clk")
    /\ \E ok \in BOOLEAN :
          IF ok THEN /\ subs' = subs \cup {Sub(Cur, "Clk")}
                     /\ owners' = owners
                           \cup {Ref(Cur, cell, "Clk") : cell \in ClosureHolds}
                ELSE UNCHANGED <<subs, owners>>
    /\ built' = built \cup {Cur}
    /\ NextEncoder
    /\ UNCHANGED <<pins, result, callbacks, sw_callbacks>>
    /\ ConstructFrame

\* self.clk_pin.set_async_interrupt(..)?; Ok(encoder)
RegisterClk ==
    /\ At("rot_reg_clk")
    /\ \E ok \in BOOLEAN :
          IF ok THEN /\ subs' = subs \cup {Sub(Cur, "Clk")}
                     /\ owners' = owners
                           \cup {Ref(Cur, cell, "Clk") : cell \in ClosureHolds}
                     /\ built' = built \cup {Cur}
                     /\ NextEncoder
                ELSE /\ UNCHANGED <<subs, owners, built>>
                     /\ Goto("unwind")
    /\ UNCHANGED <<pins, result, callbacks, sw_callbacks>>
    /\ ConstructFrame

\* let mut pin = gpio.get(pin_number)?.into_input_pullup()
GetSwitchPin ==
    /\ At("sw_get")
    /\ \E ok \in BOOLEAN :
          IF ok THEN /\ pins' = pins \cup {Sub(Cur, "Sw")}
                     /\ Goto("sw_reg")
                ELSE /\ UNCHANGED pins
                     /\ Goto("unwind")
    /\ UNCHANGED <<subs, owners, built, result, callbacks, sw_callbacks>>
    /\ ConstructFrame

\* pin.set_async_interrupt(..)?; Ok(Encoder {..})
RegisterSwitch ==
    /\ At("sw_reg")
    /\ \E ok \in BOOLEAN :
          IF ok THEN /\ subs' = subs \cup {Sub(Cur, "Sw")}
                     /\ built' = built \cup {Cur}
                     /\ NextEncoder
                ELSE /\ UNCHANGED <<subs, built>>
                     /\ Goto("unwind")
    /\ UNCHANGED <<pins, owners, result, callbacks, sw_callbacks>>
    /\ ConstructFrame

\* what the `?` drops on its way out: the encoder under construction, the
\* elements collected so far, and rot_encoders once the switches are built
UnwindSeq ==
    IF pc.stage = "rot"
    THEN IF pc.rotaries = <<>> THEN <<>>
         ELSE <<Cur>> \o SubSeq(pc.rotaries, 1, pc.i - 1)
    ELSE <<Cur>> \o SubSeq(pc.switches, 1, pc.i - 1) \o pc.rotaries

Holding(e) == \E p \in pins : p.enc = e

\* one encoder is dropped: its pins with their interrupts and closures
UnwindDrop ==
    /\ At("unwind")
    /\ LET todo == SelectSeq(UnwindSeq, Holding)
       IN  /\ todo # <<>>
           /\ subs' = {p \in subs : p.enc # todo[1]}
           /\ pins' = {p \in pins : p.enc # todo[1]}
           /\ owners' = {r \in owners : r.enc # todo[1]}
           /\ built' = built \ {todo[1]}
    /\ UNCHANGED <<pc, result, callbacks, sw_callbacks>>
    /\ ConstructFrame

\* the error reaches the caller
ReturnErr ==
    /\ At("unwind")
    /\ SelectSeq(UnwindSeq, Holding) = <<>>
    /\ result' = "Err"
    /\ Goto("returned")
    /\ UNCHANGED <<subs, pins, owners, built, callbacks, sw_callbacks>>
    /\ ConstructFrame

\* Ok(Self { rot_encoders, sw_encoders })
ReturnOk ==
    /\ At("return_ok")
    /\ result' = "Ok"
    /\ Goto("returned")
    /\ UNCHANGED <<subs, pins, owners, built, callbacks, sw_callbacks>>
    /\ ConstructFrame

\* a closure registered on a line of a rotary encoder runs and triggers
ConstructRotaryInterrupt ==
    /\ Len(callbacks) + Len(sw_callbacks) < MaxConstructCallbacks
    /\ \E s \in subs, d \in {Clockwise, CounterClockwise} :
          /\ s.pin \in Pin
          /\ callbacks' = Append(callbacks,
                                 [name |-> s.enc, direction |-> d])
    /\ UNCHANGED <<pc, subs, pins, owners, built, result, sw_callbacks>>
    /\ ConstructFrame

\* the closure registered on the pin of a switch runs
ConstructSwitchInterrupt ==
    /\ Len(callbacks) + Len(sw_callbacks) < MaxConstructCallbacks
    /\ \E s \in subs, pressed \in BOOLEAN :
          /\ s.pin = "Sw"
          /\ sw_callbacks' = Append(sw_callbacks,
                                    SwitchCallback(s.enc, pressed))
    /\ UNCHANGED <<pc, subs, pins, owners, built, result, callbacks>>
    /\ ConstructFrame

ConstructInit ==
    /\ EncoderInit /\ DecodeIdle /\ ThreadsIdle /\ ShiftIdle /\ SwitchIdle
    /\ \E rs \in RotaryLists, ss \in SwitchLists :
          pc = [at |-> "gpio_new", stage |-> "rot", i |-> 1,
                rotaries |-> rs, switches |-> ss]
    /\ subs = {}
    /\ pins = {}
    /\ owners = {}
    /\ built = {}
    /\ result = "none"
    /\ drop_at = 0
    /\ stale = FALSE

ConstructNext ==
    \/ GpioNew \/ GetDt \/ GetClk \/ RegisterDt \/ RegisterClk
    \/ GetSwitchPin \/ RegisterSwitch
    \/ UnwindDrop \/ ReturnErr \/ ReturnOk
    \/ ConstructRotaryInterrupt \/ ConstructSwitchInterrupt

ConstructSpec == ConstructInit /\ [][ConstructNext]_vars

Range(seq) == {seq[k] : k \in 1 .. Len(seq)}

\* everything a complete PiInput holds
AllSubs ==
    {Sub(e, pin) : e \in Range(pc.rotaries), pin \in Pin}
        \cup {Sub(e, "Sw") : e \in Range(pc.switches)}

\* C24 (ConstructSpec): construction is all or nothing: once acquiring a
\* pin or registering an interrupt has failed, the construction returns an
\* error, and when the error is returned no encoder instance is left, no
\* subscription is registered and no callback is called any more; an Ok
\* result holds every configured encoder with every subscription.
C24_AllOrNothing ==
    /\ [](result = "Err" =>
             built = {} /\ subs = {} /\ pins = {} /\ owners = {})
    /\ [](result = "Ok" =>
             /\ built = Range(pc.rotaries) \cup Range(pc.switches)
             /\ subs = AllSubs
             /\ pins = AllSubs)
    /\ [][pc.at = "unwind" =>
             pc'.at \in {"unwind", "returned"} /\ result' # "Ok"]_vars
    /\ [][result = "Err" =>
             callbacks' = callbacks /\ sw_callbacks' = sw_callbacks]_vars

C24_Witness ==
    /\ result = "Err"
    /\ pc.stage = "sw"
    /\ Len(pc.rotaries) = 2
    /\ callbacks # <<>>
    /\ subs = {}

\* the closure of every line returns on an event of every kind
HandlerReturns == \A pin \in Pin, kind \in Trigger : ENABLED Handler(pin, kind)

\* the closure of the switch returns on an event of every kind
SwitchHandlerReturns ==
    \A kind \in Trigger : ENABLED SwitchHandler(kind, LastTimestamp)

\* no sum of update_state leaves u8 (an overflow panics in a debug build)
NoOverflow ==
    \A pin \in Pin, level \in Levels :
        /\ AndBit1(state) + level < 256
        /\ AndBit0(state) + level * 2 < 256
        /\ state * 4 < 256
        /\ state * 4 + NewState(state, pin, level) < 256

\* the event is dropped: it is of another kind, or its decode fails
Dropped(e) == ~e.decoded \/ ~e.ok

\* C25 (TeardownSpec): no runtime error aborts processing: in every reachable
\* (state, direction) the handler of every line returns on an event of every
\* kind, and an edge that is dropped leaves the persisted pair and the
\* callbacks as they were, so that the next edge is decoded from the pair
\* the dropped edge found.
C25_ErrorsContained ==
    /\ [](HandlerReturns /\ SwitchHandlerReturns /\ NoOverflow)
    /\ [][Len(hist') = Len(hist) + 1 =>
            LET e == hist'[Len(hist')]
            IN  /\ Dropped(e) => UNCHANGED <<state, direction, callbacks>>
                /\ e.kind \in Edges =>
                     LET r == update_state(state, direction, e.pin,
                                           EdgeLevel(e.kind))
                     IN  /\ e.decoded
                         /\ e.ok = r.ok
                         /\ r.ok => state' = r.new_state
                                    /\ direction' = r.direction]_vars

\* an event of another kind and an invalid edge were dropped, and the edge
\* after them was decoded from (00, None)
C25_Witness ==
    /\ Len(hist) = 3
    /\ hist[1].kind = OtherTrigger
    /\ hist[2].kind = RisingEdge /\ hist[2].decoded /\ ~hist[2].ok
    /\ hist[3] = [pin |-> "Clk", kind |-> FallingEdge, decoded |-> TRUE,
                  ok |-> TRUE, trigger |-> FALSE, fired |-> <<>>,
                  after |-> 1]
    /\ state = 1

----------------------------------------------------------------------------
(* PureSpec: update_state is called several times, on arguments that need  *)
(* not be the persisted cells, while the cells change by the stores of the *)
(* successful decodes in between.                                          *)

DecodeCall(old_state, old_direction, pin, level, out) ==
    [old_state |-> old_state, old_direction |-> old_direction,
     pin |-> pin, level |-> level, out |-> out]

\* Encoder::update_state(old_state, old_direction, pin, level) is entered
PureCall ==
    /\ d_pc = "idle"
    /\ Len(hist) < MaxDecodes
    /\ d_pc' = "call"
    /\ d_old_state' \in States
    /\ d_direction' \in Direction
    /\ d_pin' \in Pin
    /\ d_level' \in Levels
    /\ UNCHANGED <<d_new_state, d_trans, d_out>>
    /\ UNCHANGED outside_dec

\* the call returns; a successful result is stored in the cells
PureReturn ==
    /\ d_pc = "done"
    /\ d_pc' = "idle"
    /\ hist' = Append(hist, DecodeCall(d_old_state, d_direction, d_pin,
                                       d_level, d_out))
    /\ IF d_out.ok
       THEN /\ state' = d_out.new_state
            /\ direction' = d_out.direction
       ELSE UNCHANGED <<state, direction>>
    /\ UNCHANGED <<d_old_state, d_direction, d_pin, d_level,
                   d_new_state, d_trans, d_out>>
    /\ UNCHANGED <<callbacks, conc_vars, shift_vars, switch_vars, life_vars>>

PureInit == EncoderInit /\ DecodeIdle /\ OutsideIdle

PureNext == PureCall \/ ComputeTransition \/ LookupTable \/ PureReturn

PureSpec == PureInit /\ [][PureNext]_vars

SameArguments(a, b) ==
    /\ a.old_state = b.old_state
    /\ a.old_direction = b.old_direction
    /\ a.pin = b.pin
    /\ a.level = b.level

\* C26 (PureSpec): the decoder is a pure function: two decodes with the
\* same old_state, old_direction, line and level return the same result
\* (the same new_state, direction and trigger, or both an error), whatever
\* was decoded before and whatever the persisted cells hold.
C26_DecoderIsPure ==
    \A i, j \in 1 .. Len(hist) :
        SameArguments(hist[i], hist[j]) =>
            /\ hist[i].out.ok = hist[j].out.ok
            /\ hist[i].out = hist[j].out

\* the same arguments decoded twice with different cells in between
C26_Witness ==
    /\ Len(hist) = 2
    /\ SameArguments(hist[1], hist[2])
    /\ hist[1].old_state = 1 /\ hist[1].old_direction = CounterClockwise
    /\ hist[1].pin = "Clk" /\ hist[1].level = 0
    /\ hist[1].out.ok
    /\ hist[2].out = hist[1].out
    /\ state = 0 /\ direction = CounterClockwise

LevelOfEdge(kind) == IF kind = FallingEdge THEN 1 ELSE 0

\* C28 (Spec): the closure of DT and the closure of CLK both pass level 1
\* to the decoder for a falling edge and level 0 for a rising edge: the
\* edge decodes exactly when update_state accepts that level, and after a
\* successful decode the bit of the line holds that level.
C28_EdgeKindToLevel ==
    [][Len(hist') = Len(hist) + 1 =>
          LET e == hist'[Len(hist')]
              r == update_state(state, direction, e.pin, LevelOfEdge(e.kind))
          IN  e.kind \in Edges =>
                /\ e.decoded
                /\ e.ok = r.ok
                /\ e.ok =>
                     /\ state' = r.new_state
                     /\ direction' = r.direction
                     /\ e.pin = "Dt" =>
                            AndBit1(state') = 2 * LevelOfEdge(e.kind)
                     /\ e.pin = "Clk" =>
                            AndBit0(state') = LevelOfEdge(e.kind)]_vars

\* DT fell, CLK fell, CLK rose: the state went 10, 11, 10
C28_Witness ==
    /\ Len(hist) = 3
    /\ hist[1].pin = "Dt" /\ hist[1].kind = FallingEdge /\ hist[1].ok
    /\ hist[1].after = 2
    /\ hist[2].pin = "Clk" /\ hist[2].kind = FallingEdge /\ hist[2].ok
    /\ hist[2].after = 3
    /\ hist[3].pin = "Clk" /\ hist[3].kind = RisingEdge /\ hist[3].ok
    /\ hist[3].after = 2

\* the thread of `pin` holds the output of a successful decode of what it
\* loaded
HoldsDecoded(pin) ==
    /\ th[pin].r.ok
    /\ th[pin].r = update_state(th[pin].old_state, th[pin].old_direction,
                                pin, EdgeLevel(th[pin].kind))

\* C29 (ConcSpec): a new encoder has state 0 and direction None; the
\* closures of both lines load from and store to the same pair of cells;
\* and a cell changes only when a closure stores the output of a successful
\* decode.
C29_CellsWrittenByDecoderOnly ==
    /\ (state = 0 /\ direction = None)
    /\ [][/\ state' # state =>
                \E pin \in Pin : /\ th[pin].pc = "store_state"
                                 /\ HoldsDecoded(pin)
                                 /\ state' = th[pin].r.new_state
          /\ direction' # direction =>
                \E pin \in Pin : /\ th[pin].pc = "store_direction"
                                 /\ HoldsDecoded(pin)
                                 /\ direction' = th[pin].r.direction
          /\ \A pin \in Pin :
                /\ (th[pin].pc = "load_state"
                        /\ th'[pin].pc = "load_direction") =>
                      th'[pin].old_state = state
                /\ (th[pin].pc = "load_direction"
                        /\ th'[pin].pc = "decode") =>
                      th'[pin].old_direction = direction
                /\ (th[pin].pc = "store_state"
                        /\ th'[pin].pc = "store_direction") =>
                      state' = th[pin].r.new_state
                /\ (th[pin].pc = "store_direction"
                        /\ th'[pin].pc # "store_direction") =>
                      direction' = th[pin].r.direction]_vars

\* CLK decoded from the pair that DT had stored
C29_Witness ==
    /\ Running = {}
    /\ Len(hist) = 2
    /\ hist[1].pin = "Dt" /\ hist[1].ok /\ hist[1].after = 2
    /\ hist[2].pin = "Clk" /\ hist[2].ok /\ hist[2].after = 3
    /\ state = 3
    /\ direction = CounterClockwise

\* the threads that have done both loads and not yet returned
Loaded == {p \in Pin : th[p].pc \in {"decode", "store_state",
                                     "store_direction", "callback"}}

\* C30 (ConcSpec): with the closures of DT and CLK running concurrently,
\* the (state, direction) pair a closure has loaded is a pair that one
\* successful decode stored, or the initial pair; never the state of one
\* update with the direction of another.
C30_LoadedPairWasWritten ==
    \A p \in Loaded : <<th[p].old_state, th[p].old_direction>> \in written

\* C31 (LongPressSpec): the long-press comparison is strict: a release
\* whose elapsed time equals the threshold reports (name, false), and the
\* long-press name is reported exactly for an elapsed time greater than the
\* threshold.
C31_ThresholdIsStrict ==
    [][ReleaseAfterPress =>
          LET elapsed == sw_events'[Len(sw_events')].timestamp
                            - LastEdge.timestamp
              reported == sw_callbacks'[Len(sw_callbacks')]
          IN  /\ elapsed = LongPressThreshold =>
                    reported = SwitchCallback(switch_name, FALSE)
              /\ reported.name = long_press_name <=>
                    elapsed >= LongPressThreshold + 1]_vars

\* a press held for exactly the threshold was reported under the base name
C31_Witness ==
    /\ long_press
    /\ Len(sw_events) = 2
    /\ sw_events[1] = SwitchEvent(FallingEdge, 1)
    /\ sw_events[2] = SwitchEvent(RisingEdge, 1 + LongPressThreshold)
    /\ sw_callbacks = <<SwitchCallback(switch_name, TRUE),
                        SwitchCallback(switch_name, FALSE)>>

----------------------------------------------------------------------------
(* ModesSpec: a switch of either mode; the mode is chosen at construction  *)
(* by the presence of a long-press name.                                   *)

ModesInit ==
    /\ EncoderInit /\ DecodeIdle /\ ThreadsIdle /\ ShiftIdle /\ LifeIdle
    /\ sw_callbacks = <<>>
    /\ sw_events = <<>>
    /\ press_start = Absent
    /\ long_press \in BOOLEAN

ModesInterrupt ==
    /\ Len(sw_events) < MaxSwitchEvents
    /\ \E kind \in Trigger, timestamp \in LastTimestamp .. MaxTime :
          IF long_press THEN ClassifierHandler(kind, timestamp)
                        ELSE SwitchHandler(kind, timestamp)
    /\ UNCHANGED <<enc_vars, dec_vars, conc_vars, shift_vars, life_vars>>

ModesNext == ModesInterrupt

ModesSpec == ModesInit /\ [][ModesNext]_vars

\* C32 (ModesSpec): in both modes of the switch a callback with
\* pressed = true carries the base name; the long-press name comes only
\* with pressed = false, only in long-press mode, and at most once per
\* press: the callback right before it is the press it releases.
C32_LongNameOnlyOnRelease ==
    \A i \in 1 .. Len(sw_callbacks) :
        /\ sw_callbacks[i].pressed => sw_callbacks[i].name = switch_name
        /\ sw_callbacks[i].name \in {switch_name, long_press_name}
        /\ sw_callbacks[i].name = long_press_name =>
              /\ long_press
              /\ ~sw_callbacks[i].pressed
              /\ i > 1
              /\ sw_callbacks[i - 1] = SwitchCallback(switch_name, TRUE)

\* a long press, its release, and a second release that is not long
C32_Witness ==
    /\ long_press
    /\ Len(sw_events) = 3
    /\ sw_events[1] = SwitchEvent(FallingEdge, 0)
    /\ sw_events[2] = SwitchEvent(RisingEdge, 5)
    /\ sw_events[3] = SwitchEvent(RisingEdge, 6)
    /\ sw_callbacks = <<SwitchCallback(switch_name, TRUE),
                        SwitchCallback(long_press_name, FALSE),
                        SwitchCallback(switch_name, FALSE)>>

\* the transition words in which both bits change
BothBitsChange == {3, 6, 9, 12}

\* C33 (DecodeSpec): through the interface of the decoder (old_state in
\* 0..3, level in 0..1, one changed line) no transition word with both bits
\* changing (0011, 0110, 1001, 1100) is formed, so the table entry of word
\* 1100 is never taken and no decode from state 11 returns a trigger.
C33_Word1100Unreachable ==
    (d_pc \in {"match", "done"}) =>
        /\ d_trans = TransState(d_old_state, d_new_state)
        /\ d_trans \notin BothBitsChange
        /\ (Done /\ d_old_state = 3) => (d_out.ok => ~d_out.trigger)

\* a decode from state 11 that succeeds: word 1110, no trigger
C33_Witness ==
    /\ Done
    /\ d_old_state = 3
    /\ d_pin = "Clk" /\ d_level = 0
    /\ d_trans = 14
    /\ d_out = DecodeOk(2, Clockwise, FALSE)

\* the level delivered is the bit the state already holds for the line
SameLevel ==
    IF d_pin = "Clk" THEN AndBit0(d_old_state) = d_level
                     ELSE AndBit1(d_old_state) = 2 * d_level

\* C34 (DecodeSpec): for old_state in 0..3 and level in 0..1 a decode fails
\* exactly when the level equals the bit already stored for the changed
\* line (words 0000, 0101, 1010, 1111), or the word is 0100 and
\* old_direction is not CounterClockwise, or the word is 1000 and
\* old_direction is not Clockwise; every other input decodes.
C34_FailsExactlyWhen ==
    Done =>
        /\ SameLevel <=> d_trans \in {0, 5, 10, 15}
        /\ ~d_out.ok <=>
              \/ SameLevel
              \/ d_trans = 4 /\ d_direction # CounterClockwise
              \/ d_trans = 8 /\ d_direction # Clockwise

\* CLK delivered level 1 while its bit was already 1: word 0101 fails
C34_Witness ==
    /\ Done
    /\ d_old_state = 1 /\ d_pin = "Clk" /\ d_level = 1
    /\ d_direction = Clockwise
    /\ d_trans = 5
    /\ ~d_out.ok

Turning == {Clockwise, CounterClockwise}

\* C35 (ConcSpec): whenever the decoder returns a trigger, new_state is 00
\* and the direction returned is old_direction and is Clockwise or
\* CounterClockwise; so no callback carries direction None, and a callback
\* is made only by a closure whose edge stored state 00.
C35_TriggerOnlyIntoRest ==
    /\ [](\A i \in 1 .. Len(callbacks) : callbacks[i].direction \in Turning)
    /\ [](\A pin \in Pin :
             (th[pin].r.ok /\ th[pin].r.trigger) =>
                 /\ th[pin].r = update_state(th[pin].old_state,
                                             th[pin].old_direction, pin,
                                             EdgeLevel(th[pin].kind))
                 /\ th[pin].r.new_state = 0
                 /\ th[pin].r.direction = th[pin].old_direction
                 /\ th[pin].r.direction \in Turning)
    /\ [][callbacks' # callbacks =>
             \E pin \in Pin :
                 /\ th[pin].pc = "callback"
                 /\ th[pin].r.trigger
                 /\ th[pin].r.new_state = 0
                 /\ callbacks' = Append(callbacks,
                                        CallbackOf(th[pin].r.direction))]_vars

\* a counter-clockwise cycle handled edge after edge: its callback came
\* with the edge that stored 00
C35_Witness ==
    /\ Running = {}
    /\ Len(hist) = 4
    /\ \A i \in 1 .. 4 : hist[i].ok /\ hist[i].after = CcwStates[i]
    /\ hist[4].trigger
    /\ callbacks = <<CallbackOf(CounterClockwise)>>
    /\ state = 0
    /\ direction = CounterClockwise

\* C36 (ConcSpec): in every reachable state, under every interleaving of
\* the two closures, the persisted state and every loaded state is in 0..3,
\* and for every line and level the new state formed from it is in 0..3 and
\* the transition word in 0..15: the u8 sum (old_state << 2) + new_state
\* does not overflow.
C36_StateAndWordInRange ==
    /\ state \in 0 .. 3
    /\ \A p \in Pin : th[p].old_state \in 0 .. 3
    /\ \A p \in Pin : \A old \in {state, th[p].old_state}, level \in Levels :
          LET new_state == NewState(old, p, level)
          IN  /\ new_state \in 0 .. 3
              /\ old * 4 + new_state \in 0 .. 15
              /\ TransState(old, new_state) = old * 4 + new_state

\* both closures are in flight after a stored update; the DT closure has
\* loaded state 01
C36_Witness ==
    /\ state = 3
    /\ th["Dt"].pc = "store_direction"
    /\ th["Dt"].old_state = 1
    /\ th["Clk"].pc = "decode"
    /\ th["Clk"].old_state = 3

\* C37 (ConcSpec): the persisted direction is None only until the first
\* successful decode: every successful decode holds Clockwise or
\* CounterClockwise, a closure that has returned from one leaves the cell
\* not None, and a cell that is not None never becomes None again, under
\* every interleaving of the two closures.
C37_DirectionNoneOnlyAtStart ==
    /\ [](\A pin \in Pin : th[pin].r.ok => th[pin].r.direction \in Turning)
    /\ []((\E i \in 1 .. Len(hist) : hist[i].ok) => direction \in Turning)
    /\ [](hist = <<>> /\ Running = {} => direction = None)
    /\ [][direction # None => direction' # None]_vars

\* a dropped edge left None, the next edge decoded and stored Clockwise,
\* and a later dropped edge left it
C37_Witness ==
    /\ Running = {}
    /\ Len(hist) = 3
    /\ ~hist[1].ok /\ hist[1].after = 0
    /\ hist[2].ok /\ hist[2].pin = "Clk" /\ hist[2].after = 1
    /\ ~hist[3].ok
    /\ direction = Clockwise

Other(pin) == IF pin = "Dt" THEN "Clk" ELSE "Dt"

\* C38 (ConcSpec): on a triggering edge the closure stores the new state,
\* then the new direction, and only then calls back: the callback position
\* is entered by the store of the direction, which follows the store of the
\* state, and between its stores and its callback the cells change only by
\* a store of the closure of the other line; with no such store the pair
\* at the callback is the one just stored, 00 and the direction reported.
C38_StoresBeforeCallback ==
    [][\A pin \in Pin :
            /\ (th'[pin].pc = "store_direction"
                    /\ th[pin].pc # "store_direction") =>
                  /\ th[pin].pc = "store_state"
                  /\ state' = th[pin].r.new_state
            /\ (th'[pin].pc = "callback" /\ th[pin].pc # "callback") =>
                  /\ th[pin].pc = "store_direction"
                  /\ th[pin].r.trigger
                  /\ th[pin].r.new_state = 0
                  /\ direction' = th[pin].r.direction
            /\ (th[pin].pc \in {"store_direction", "callback"}
                    /\ state' # state) =>
                  th[Other(pin)].pc = "store_state"
            /\ (th[pin].pc = "callback" /\ direction' # direction) =>
                  th[Other(pin)].pc = "store_direction"
            /\ callbacks' # callbacks =>
                  \E p \in Pin : th[p].pc = "callback"]_vars

\* three edges of a clockwise cycle have returned and the closure of the
\* fourth is about to call back, with 00 and Clockwise already stored
C38_Witness ==
    /\ th["Dt"].pc = "callback"
    /\ th["Clk"].pc = "idle"
    /\ Len(hist) = 3
    /\ \A i \in 1 .. 3 : hist[i].ok /\ hist[i].after = CwStates[i]
    /\ callbacks = <<>>
    /\ state = 0
    /\ direction = Clockwise
    /\ th["Dt"].r = DecodeOk(0, Clockwise, TRUE)

\* what update_state of rotary_encoder_switch.rs returns for the arguments
\* of the call in progress
SwitchCopyOut == update_state_switch(d_old_state, d_direction, d_pin, d_level)

\* C39 (DecodeSpec): for every old_state in 0..3, old_direction, line and
\* level the decoder of rotary_encoder.rs and its copy in
\* rotary_encoder_switch.rs return the same new_state, direction and
\* trigger, or both return an error.
C39_DecoderCopiesAgree ==
    Done =>
        /\ d_out.ok = SwitchCopyOut.ok
        /\ d_out.ok =>
              /\ d_out.new_state = SwitchCopyOut.new_state
              /\ d_out.direction = SwitchCopyOut.direction
              /\ d_out.trigger = SwitchCopyOut.trigger

\* a detent completed clockwise (word 1000): both copies return
\* (00, Clockwise, true)
C39_Witness ==
    /\ Done
    /\ d_old_state = 2
    /\ d_direction = Clockwise
    /\ d_pin = "Dt"
    /\ d_level = 0
    /\ d_out = DecodeOk(0, Clockwise, TRUE)
    /\ SwitchCopyOut = DecodeOk(0, Clockwise, TRUE)

====
